---- MODULE Spec2Model ----
(***************************************************************************)
(* Model of the priority work queue (AsyncQueue, queue/async-queue.ts) and *)
(* of the worker pool that drains it (WorkerPool, queue/worker-pool.ts).   *)
(*                                                                         *)
(* The program runs on one JavaScript execution context: code between two  *)
(* awaits runs without interruption.  Every action below is one such run:  *)
(* a call made by the pool's owner, or the continuation of one worker loop *)
(* from the await that resumed it up to its next await.                    *)
(***************************************************************************)
EXTENDS Integers, Sequences, FiniteSets, Bags, TLC

\* ---------------------------------------------------------------- bounds
MaxItems == 3
MaxPoolItems == 2
MaxPriority == 1
MaxMaxAttempts == 2
workerCount == 2

\* ------------------------------------------------------------- constants
\* dequeue's "no more work" value.
null == 0
\* A promise returned by dequeue whose resolve function sits in waiters.
unresolved == -1

\* WorkerPool.constructor: the queue is created with the pool's worker count.
maxConcurrent == workerCount

Ids == 1..MaxItems
Workers == 1..workerCount
\* Direct users of a queue (SpecQueue): one more than the concurrency limit.
Callers == 1..(workerCount + 1)
Priorities == 0..MaxPriority
AttemptLimits == 0..MaxMaxAttempts

VARIABLES
  queue,     \* WorkerPool.queue: the AsyncQueue object, the items it refers to,
             \* and the promises dequeue handed out
  pc,        \* where each worker loop (or direct caller) stands
  held,      \* workerLoop's local `item`
  outcome,   \* how the processor call of a worker settled
  running,   \* WorkerPool.running
  workers,   \* WorkerPool.workers.length
  results,   \* WorkerPool.results, as the bag of its entries
  wfc,       \* the waitForCompletion() call: its position and what it awaits
  sd,        \* the shutdown() call: its position and what it awaits
  created,   \* number of createQueueItem calls so far (ids are fresh)
  submitted, \* history: ids accepted by enqueue / enqueueMany
  onlyRec,   \* history: per item, every finished attempt was a recoverable failure
  app        \* the application around the pool: the course it scans and routes

vars == <<queue, pc, held, outcome, running, workers, results, wfc, sd,
          created, submitted, onlyRec, app>>

\* The pool and the queue on their own: no application around them.
noApp == [at |-> "none"]

\* ------------------------------------------------------------ QueueItem
noError == [code |-> "NONE", recoverable |-> FALSE]

createQueueItem(p, m) ==
  [status |-> "pending", priority |-> p, attempts |-> 0, maxAttempts |-> m,
   error |-> noError]

\* ----------------------------------------------------------- AsyncQueue
newQueue(callers) ==
  [items |-> <<>>, processing |-> {}, completed |-> {}, failed |-> {},
   skipped |-> {}, closed |-> FALSE, waiters |-> <<>>,
   item |-> [i \in Ids |-> createQueueItem(0, 0)],
   promise |-> [c \in callers |-> unresolved],
   \* history: acquisitions per item
   acquired |-> [i \in Ids |-> 0],
   \* history: the pending ids in the order they entered pending
   arrival |-> <<>>,
   \* history: the acquisitions of the current step, each with the pending
   \* ids (in arrival order) it chose from
   acq |-> <<>>,
   \* history: the item the current step took out of processing and the
   \* number of suspended callers that call served, if it served any
   rel |-> [id |-> null, served |-> 0],
   \* history: the current step is an enqueue or enqueueMany call that threw
   \* "Queue is closed"
   refused |-> FALSE]

Remove(s, x) == SelectSeq(s, LAMBDA y : y # x)

\* History bookkeeping of one acquisition / one entry into pending.
noteAcquire(q, i) ==
  [q EXCEPT !.acquired[i] = @ + 1,
            !.acq = Append(@, [id |-> i, pending |-> q.arrival]),
            !.arrival = Remove(@, i)]

notePush(q, i) == [q EXCEPT !.arrival = Append(Remove(@, i), i)]

\* History bookkeeping of one markCompleted, markFailed, markSkipped or
\* requeue call that took q0 to q1 and served suspended callers.
noteRelease(q0, q1, i) ==
  IF Len(q1.waiters) = Len(q0.waiters) THEN q1
  ELSE [q1 EXCEPT !.rel = [id |-> i,
                           served |-> Len(q0.waiters) - Len(q1.waiters)]]

\* Mutant: an unstable sort, which puts an item before its equals.
RECURSIVE insert_Unstable(_, _, _)
insert_Unstable(s, x, item) ==
  IF s = <<>> THEN <<x>>
  ELSE IF item[Head(s)].priority < item[x].priority
       THEN <<Head(s)>> \o insert_Unstable(Tail(s), x, item)
       ELSE <<x>> \o s

\* Array.prototype.sort((a, b) => a.priority - b.priority): a stable sort.
RECURSIVE insert(_, _, _)
insert(s, x, item) ==
  IF s = <<>> THEN <<x>>
  ELSE IF item[Head(s)].priority <= item[x].priority
       THEN <<Head(s)>> \o insert(Tail(s), x, item)
       ELSE <<x>> \o s

RECURSIVE sort(_, _)
sort(s, item) ==
  IF s = <<>> THEN <<>>
  ELSE insert(sort(SubSeq(s, 1, Len(s) - 1), item), s[Len(s)], item)

\* Mutant: the caller that suspended last is served first.
RECURSIVE notifyWaiters_Lifo(_)
notifyWaiters_Lifo(q) ==
  IF Len(q.waiters) > 0 /\ Len(q.items) > 0
     /\ Cardinality(q.processing) < maxConcurrent
  THEN LET waiter == q.waiters[Len(q.waiters)]
           i == Head(q.items)
       IN notifyWaiters_Lifo([noteAcquire(q, i) EXCEPT
                                !.waiters = SubSeq(@, 1, Len(@) - 1),
                                !.items = Tail(@),
                                !.processing = @ \cup {i},
                                !.promise[waiter] = i])
  ELSE q

RECURSIVE notifyWaiters(_)
notifyWaiters(q) ==
  IF Len(q.waiters) > 0 /\ Len(q.items) > 0
     /\ Cardinality(q.processing) < maxConcurrent
  THEN LET waiter == Head(q.waiters)
           i == Head(q.items)
       IN notifyWaiters([noteAcquire(q, i) EXCEPT
                           !.waiters = Tail(@),
                           !.items = Tail(@),
                           !.processing = @ \cup {i},
                           !.promise[waiter] = i])
  ELSE q

\* Mutant: enqueue does not look at the closed flag.
enqueue_WhenClosed(q, i) ==
  notifyWaiters([notePush(q, i) EXCEPT
                   !.items = sort(Append(q.items, i), q.item)])

\* enqueue on a closed queue throws before it changes anything.
enqueue(q, i) ==
  IF q.closed THEN [q EXCEPT !.refused = TRUE]
  ELSE notifyWaiters([notePush(q, i) EXCEPT
                        !.items = sort(Append(q.items, i), q.item)])

RECURSIVE notePushAll(_, _)
notePushAll(q, s) ==
  IF s = <<>> THEN q ELSE notePushAll(notePush(q, Head(s)), Tail(s))

enqueueMany(q, s) ==
  IF q.closed THEN [q EXCEPT !.refused = TRUE]
  ELSE notifyWaiters([notePushAll(q, s) EXCEPT
                        !.items = sort(q.items \o s, q.item)])

\* Mutant: dequeue hands out an item without looking at the concurrency limit.
dequeue_NoLimit(q, c) ==
  IF q.closed /\ Len(q.items) = 0
  THEN [q EXCEPT !.promise[c] = null]
  ELSE IF Len(q.items) > 0
  THEN LET i == Head(q.items)
       IN [noteAcquire(q, i) EXCEPT !.items = Tail(@),
                                    !.processing = @ \cup {i},
                                    !.promise[c] = i]
  ELSE [q EXCEPT !.waiters = Append(@, c), !.promise[c] = unresolved]

\* Mutant: dequeue hands out an item only while nothing is in processing, so
\* callers are suspended although an item is pending and a slot is free.
dequeue_OneAtATime(q, c) ==
  IF q.closed /\ Len(q.items) = 0
  THEN [q EXCEPT !.promise[c] = null]
  ELSE IF Len(q.items) > 0 /\ Cardinality(q.processing) < 1
  THEN LET i == Head(q.items)
       IN [noteAcquire(q, i) EXCEPT !.items = Tail(@),
                                    !.processing = @ \cup {i},
                                    !.promise[c] = i]
  ELSE IF q.closed
  THEN [q EXCEPT !.promise[c] = null]
  ELSE [q EXCEPT !.waiters = Append(@, c), !.promise[c] = unresolved]

\* Mutant: a closed queue answers null even while items are pending.
dequeue_NullWhenClosed(q, c) ==
  IF q.closed
  THEN [q EXCEPT !.promise[c] = null]
  ELSE IF Len(q.items) > 0 /\ Cardinality(q.processing) < maxConcurrent
  THEN LET i == Head(q.items)
       IN [noteAcquire(q, i) EXCEPT !.items = Tail(@),
                                    !.processing = @ \cup {i},
                                    !.promise[c] = i]
  ELSE [q EXCEPT !.waiters = Append(@, c), !.promise[c] = unresolved]

\* Mutant: a caller that finds no free slot is suspended even on a closed
\* queue.
dequeue_WaitWhenClosed(q, c) ==
  IF q.closed /\ Len(q.items) = 0
  THEN [q EXCEPT !.promise[c] = null]
  ELSE IF Len(q.items) > 0 /\ Cardinality(q.processing) < maxConcurrent
  THEN LET i == Head(q.items)
       IN [noteAcquire(q, i) EXCEPT !.items = Tail(@),
                                    !.processing = @ \cup {i},
                                    !.promise[c] = i]
  ELSE [q EXCEPT !.waiters = Append(@, c), !.promise[c] = unresolved]

\* The promise dequeue returns to caller c.
dequeue(q, c) ==
  IF q.closed /\ Len(q.items) = 0
  THEN [q EXCEPT !.promise[c] = null]
  ELSE IF Len(q.items) > 0 /\ Cardinality(q.processing) < maxConcurrent
  THEN LET i == Head(q.items)
       IN [noteAcquire(q, i) EXCEPT !.items = Tail(@),
                                    !.processing = @ \cup {i},
                                    !.promise[c] = i]
  ELSE IF q.closed
  THEN [q EXCEPT !.promise[c] = null]
  ELSE [q EXCEPT !.waiters = Append(@, c), !.promise[c] = unresolved]

markCompleted(q, i) ==
  noteRelease(q, notifyWaiters([q EXCEPT !.processing = @ \ {i},
                                         !.item[i].status = "completed",
                                         !.completed = @ \cup {i}]), i)

markFailed(q, i, code) ==
  noteRelease(q, notifyWaiters([q EXCEPT
                 !.processing = @ \ {i},
                 !.item[i].status = "failed",
                 !.item[i].error = [code |-> code, recoverable |-> FALSE],
                 !.failed = @ \cup {i}]), i)

markSkipped(q, i) ==
  noteRelease(q, notifyWaiters([q EXCEPT
                 !.processing = @ \ {i},
                 !.item[i].status = "skipped",
                 !.item[i].error = [code |-> "SKIPPED", recoverable |-> FALSE],
                 !.skipped = @ \cup {i}]), i)

\* Mutant: a retried item is put at the end of pending and pending is not
\* sorted again, so it waits by retry time.
requeue_AtEnd(q, i) ==
  LET q1 == [q EXCEPT !.processing = @ \ {i},
                      !.item[i].attempts = @ + 1]
  IN noteRelease(q,
       IF q1.item[i].attempts < q1.item[i].maxAttempts
       THEN LET q2 == [notePush(q1, i) EXCEPT !.item[i].status = "pending"]
            IN notifyWaiters([q2 EXCEPT !.items = Append(q2.items, i)])
       ELSE notifyWaiters(markFailed(q1, i, "MAX_ATTEMPTS")), i)

\* Mutant: requeue puts the item back and does not call notifyWaiters.
requeue_NoNotify(q, i) ==
  LET q1 == [q EXCEPT !.processing = @ \ {i},
                      !.item[i].attempts = @ + 1]
  IN IF q1.item[i].attempts < q1.item[i].maxAttempts
     THEN LET q2 == [notePush(q1, i) EXCEPT !.item[i].status = "pending"]
          IN [q2 EXCEPT !.items = sort(Append(q2.items, i), q2.item)]
     ELSE markFailed(q1, i, "MAX_ATTEMPTS")

\* Mutant: a retried item leaves processing and is put nowhere.
requeue_Drop(q, i) ==
  LET q1 == [q EXCEPT !.processing = @ \ {i},
                      !.item[i].attempts = @ + 1]
  IN IF q1.item[i].attempts < q1.item[i].maxAttempts
     THEN notifyWaiters([q1 EXCEPT !.item[i].status = "pending"])
     ELSE notifyWaiters(markFailed(q1, i, "MAX_ATTEMPTS"))

\* Mutant: a retry does not count the attempt.
requeue_NoCount(q, i) ==
  LET q1 == [q EXCEPT !.processing = @ \ {i}]
  IN IF q1.item[i].attempts < q1.item[i].maxAttempts
     THEN LET q2 == [notePush(q1, i) EXCEPT !.item[i].status = "pending"]
          IN notifyWaiters([q2 EXCEPT !.items = sort(Append(q2.items, i), q2.item)])
     ELSE notifyWaiters(markFailed(q1, i, "MAX_ATTEMPTS"))

\* Mutant: the attempt limit is compared with <=, one attempt too many.
requeue_OneMore(q, i) ==
  LET q1 == [q EXCEPT !.processing = @ \ {i},
                      !.item[i].attempts = @ + 1]
  IN IF q1.item[i].attempts <= q1.item[i].maxAttempts
     THEN LET q2 == [notePush(q1, i) EXCEPT !.item[i].status = "pending"]
          IN notifyWaiters([q2 EXCEPT !.items = sort(Append(q2.items, i), q2.item)])
     ELSE notifyWaiters(markFailed(q1, i, "MAX_ATTEMPTS"))

requeue(q, i) ==
  LET q1 == [q EXCEPT !.processing = @ \ {i},
                      !.item[i].attempts = @ + 1]
  IN noteRelease(q,
       IF q1.item[i].attempts < q1.item[i].maxAttempts
       THEN LET q2 == [notePush(q1, i) EXCEPT !.item[i].status = "pending"]
            IN notifyWaiters([q2 EXCEPT !.items = sort(Append(q2.items, i), q2.item)])
       ELSE notifyWaiters(markFailed(q1, i, "MAX_ATTEMPTS")), i)

getStats(q) ==
  [total |-> Len(q.items) + Cardinality(q.processing) + Cardinality(q.completed)
             + Cardinality(q.failed) + Cardinality(q.skipped),
   pending |-> Len(q.items),
   processing |-> Cardinality(q.processing),
   completed |-> Cardinality(q.completed),
   failed |-> Cardinality(q.failed),
   skipped |-> Cardinality(q.skipped)]

\* Mutant: close forgets the callers suspended in dequeue.
close_NoWake(q) == [q EXCEPT !.closed = TRUE, !.waiters = <<>>]

\* Mutant: close releases only the caller that suspended first.
close_WakeFirst(q) ==
  [q EXCEPT !.closed = TRUE,
            !.promise = [c \in DOMAIN q.promise |->
                           IF Len(q.waiters) > 0 /\ Head(q.waiters) = c
                           THEN null ELSE q.promise[c]],
            !.waiters = <<>>]

close(q) ==
  [q EXCEPT !.closed = TRUE,
            !.promise = [c \in DOMAIN q.promise |->
                           IF \E k \in 1..Len(q.waiters) : q.waiters[k] = c
                           THEN null ELSE q.promise[c]],
            !.waiters = <<>>]

\* Every action starts a new step: the per-step acquisition history restarts.
Begin(q) ==
  [q EXCEPT !.acq = <<>>, !.rel = [id |-> null, served |-> 0], !.refused = FALSE]

\* ================================================= scanner, router, output
\* A file name is the sequence of its dot-separated segments ("main.cpp" is
\* <<"main", "cpp">>); an extension is the sequence of the segments after
\* its leading dot (".tar.gz" is <<"tar", "gz">>, no extension is <<>>).
Segments ==
  {"main", "Main", "clip", "song", "data", "doc", "notes", "README",
   "cpp", "CPP", "mp4", "MP4", "mp3", "tar", "TAR", "gz", "GZ", "pdf", "xyz"}

\* String.prototype.toLowerCase on one segment.
toLowerCase(seg) ==
  CASE seg = "Main" -> "main"
    [] seg = "README" -> "readme"
    [] seg = "CPP" -> "cpp"
    [] seg = "MP4" -> "mp4"
    [] seg = "TAR" -> "tar"
    [] seg = "GZ" -> "gz"
    [] OTHER -> seg

lowerAll(s) == [k \in 1..Len(s) |-> toLowerCase(s[k])]

\* String.prototype.endsWith for a name and a ".x.y" suffix: the suffix
\* starts with a dot, so a segment must come before it.
endsWith(name, ext) ==
  /\ Len(ext) > 0
  /\ Len(name) > Len(ext)
  /\ SubSeq(name, Len(name) - Len(ext) + 1, Len(name)) = ext

\* path.extname of a name that does not start with a dot.
extname(name) == IF Len(name) >= 2 THEN <<name[Len(name)]>> ELSE <<>>

\* path.basename(name, ext): ext is cut off when the name ends with it,
\* compared character by character.
basename(name, ext) ==
  IF endsWith(name, ext) THEN SubSeq(name, 1, Len(name) - Len(ext)) ELSE name

\* The tables of core/constants.ts, restricted to the extensions of the
\* names the model draws.
FILE_EXTENSIONS ==
  [text |-> {<<"md">>}, code |-> {<<"cpp">>}, document |-> {<<"pdf">>},
   archive |-> {<<"gz">>, <<"tar", "gz">>}, html |-> {<<"html">>, <<"xhtml">>},
   video |-> {<<"mp4">>}, audio |-> {<<"mp3">>}]

SKIP_EXTENSIONS == FILE_EXTENSIONS.video \cup FILE_EXTENSIONS.audio
TEXT_EXTENSIONS == FILE_EXTENSIONS.text \cup FILE_EXTENSIONS.code

directory == [kind |-> "directory", ext |-> <<>>]
noFormat == [kind |-> "none", ext |-> <<>>]
format(ext) == [kind |-> "ext", ext |-> ext]

SKILL_MAPPINGS ==
  [e \in {<<"pdf">>, <<"html">>, <<"gz">>, <<"tar", "gz">>} |->
     IF e = <<"pdf">> THEN [skill |-> "pdf", outputFormat |-> format(<<"md">>)]
     ELSE IF e = <<"html">>
     THEN [skill |-> "html2markdown", outputFormat |-> format(<<"md">>)]
     ELSE [skill |-> "archive-extractor", outputFormat |-> directory]]

\* Mutant: the extension is taken from the name as written.
getExtension_AsGiven(filename) ==
  IF endsWith(filename, <<"tar", "gz">>) THEN <<"tar", "gz">>
  ELSE extname(filename)

\* Scanner.getExtension
getExtension(filename) ==
  LET lowerName == lowerAll(filename)
  IN IF endsWith(lowerName, <<"tar", "gz">>) THEN <<"tar", "gz">>
     ELSE lowerAll(extname(filename))

\* Scanner.categorizeFile: the first category, in the order of the table,
\* that lists the extension.
categorizeFile(extension) ==
  CASE extension \in FILE_EXTENSIONS.text -> "text"
    [] extension \in FILE_EXTENSIONS.code -> "code"
    [] extension \in FILE_EXTENSIONS.document -> "document"
    [] extension \in FILE_EXTENSIONS.archive -> "archive"
    [] extension \in FILE_EXTENSIONS.html -> "html"
    [] extension \in FILE_EXTENSIONS.video -> "video"
    [] extension \in FILE_EXTENSIONS.audio -> "audio"
    [] OTHER -> "unknown"

\* Mutant: the extension is looked up as given, without toLowerCase.
getRoutingDecision_AsGiven(extension) ==
  IF extension \in SKIP_EXTENSIONS
  THEN [method |-> "skip", skillName |-> "none", outputFormat |-> noFormat]
  ELSE IF extension \in TEXT_EXTENSIONS
  THEN [method |-> "passthrough", skillName |-> "none", outputFormat |-> format(extension)]
  ELSE IF extension \in DOMAIN SKILL_MAPPINGS
  THEN [method |-> IF SKILL_MAPPINGS[extension].outputFormat = directory
                   THEN "archive" ELSE "skill",
        skillName |-> SKILL_MAPPINGS[extension].skill,
        outputFormat |-> SKILL_MAPPINGS[extension].outputFormat]
  ELSE [method |-> "unsupported", skillName |-> "none", outputFormat |-> noFormat]

\* SkillRegistry.getRoutingDecision
getRoutingDecision(extension) ==
  LET ext == lowerAll(extension)
  IN IF ext \in SKIP_EXTENSIONS
     THEN [method |-> "skip", skillName |-> "none", outputFormat |-> noFormat]
     ELSE IF ext \in TEXT_EXTENSIONS
     THEN [method |-> "passthrough", skillName |-> "none", outputFormat |-> format(ext)]
     ELSE IF ext \in DOMAIN SKILL_MAPPINGS
     THEN LET mapping == SKILL_MAPPINGS[ext]
          IN [method |-> IF mapping.outputFormat = directory THEN "archive" ELSE "skill",
              skillName |-> mapping.skill,
              outputFormat |-> mapping.outputFormat]
     ELSE [method |-> "unsupported", skillName |-> "none", outputFormat |-> noFormat]

\* ------------------------------------------------- the course directory
\* A course directory is the sequence of its files in the order the scan
\* meets them; each file has the directory it sits in, relative to the
\* course root, and its name.
MaxFiles == 2
DefaultMaxAttempts == 3

CourseDirs == {<<>>, <<"CODE", "project1">>, <<"CODE", "__cc_validated_files">>}

FileNames ==
  {<<"main", "cpp">>, <<"Main", "CPP">>, <<"clip", "mp4">>, <<"clip", "MP4">>,
   <<"song", "mp3">>, <<"data", "tar", "gz">>, <<"data", "TAR", "GZ">>,
   <<"doc", "pdf">>, <<"doc", "md">>, <<"notes", "xyz">>, <<"README">>}

Entries == [dir : CourseDirs, name : FileNames]

Trees ==
  {t \in UNION {[1..n -> Entries] : n \in 0..MaxFiles} :
     \A k \in DOMAIN t, l \in DOMAIN t : k # l => t[k] # t[l]}

\* CourseDetector.createCourse: join(codePath, OUTPUT_DIRS.validatedFiles)
validatedFilesPath == <<"CODE", "__cc_validated_files">>

\* entry.startsWith("__cc"), for the directory names of CourseDirs.
startsWithCc(entry) == entry = "__cc_validated_files"

\* The ScannedFile pushed for a file: relDir is dirname(relativePath).
ScannedFile(dir, name) ==
  [relDir |-> dir, name |-> name, extension |-> getExtension(name),
   category |-> categorizeFile(getExtension(name))]

\* Scanner.scanDirectory from the course root: directories whose name
\* starts with "__cc" are not entered, video and audio files are dropped.
RECURSIVE scanDirectory(_)
scanDirectory(entries) ==
  IF entries = <<>> THEN <<>>
  ELSE LET e == Head(entries)
           file == ScannedFile(e.dir, e.name)
       IN (IF \/ \E k \in 1..Len(e.dir) : startsWithCc(e.dir[k])
              \/ file.category \in {"video", "audio"}
           THEN <<>> ELSE <<file>>) \o scanDirectory(Tail(entries))

\* A file name or path is compared as the sequence of its pieces: the
\* segments, and the "." and "_" characters put between them.
RECURSIVE flattened(_)
flattened(relDir) ==
  IF relDir = <<>> THEN <<>>
  ELSE <<Head(relDir), "_">> \o flattened(Tail(relDir))

RECURSIVE dotted(_)
dotted(segs) ==
  IF Len(segs) <= 1 THEN segs
  ELSE <<Head(segs), ".">> \o dotted(Tail(segs))

RECURSIVE withDots(_)
withDots(ext) ==
  IF ext = <<>> THEN <<>>
  ELSE <<".", Head(ext)>> \o withDots(Tail(ext))

\* OutputManager.getOutputPath
getOutputPath(file, outputDir, outputFormat) ==
  LET prefix == flattened(file.relDir)
      currentExt == file.extension
      newExt == IF outputFormat.kind = "ext" THEN outputFormat.ext ELSE currentExt
      baseName == basename(file.name, currentExt)
  IN [dir |-> outputDir,
      name |-> prefix \o dotted(baseName) \o withDots(newExt)]

\* ----------------------------------------------------------- WorkerPool
\* Mutant: every failure with attempts left is retried, whatever the error.
updateQueueState_RetryAny(q, i, success) ==
  IF success THEN markCompleted(q, i)
  ELSE IF q.item[i].attempts < q.item[i].maxAttempts
       THEN requeue(q, i)
       ELSE markFailed(q, i, IF q.item[i].error = noError THEN "UNKNOWN"
                             ELSE q.item[i].error.code)

\* Mutant: the loop retries while attempts <= maxAttempts.
updateQueueState_RetryAtLimit(q, i, success) ==
  IF success THEN markCompleted(q, i)
  ELSE IF q.item[i].error.recoverable
          /\ q.item[i].attempts <= q.item[i].maxAttempts
       THEN requeue(q, i)
       ELSE markFailed(q, i, IF q.item[i].error = noError THEN "UNKNOWN"
                             ELSE q.item[i].error.code)

\* workerLoop, "Update queue state based on result".
updateQueueState(q, i, success) ==
  IF success THEN markCompleted(q, i)
  ELSE IF q.item[i].error.recoverable
          /\ q.item[i].attempts < q.item[i].maxAttempts
       THEN requeue(q, i)
       ELSE markFailed(q, i, IF q.item[i].error = noError THEN "UNKNOWN"
                             ELSE q.item[i].error.code)

\* Mutant: no catch block, an exception of the processor leaves the loop.
settle_NoCatch(q, i, o) ==
  IF o = "throw"
  THEN [queue |-> q, success |-> FALSE, crashed |-> TRUE]
  ELSE [queue |-> updateQueueState(q, i, o = "ok"),
        success |-> (o = "ok"),
        crashed |-> FALSE]

\* workerLoop from the settled processor call to the end of the state update:
\* the catch block turns a thrown exception into a failed result and a
\* non-recoverable error on the item.  crashed: the exception left the loop.
settle(q, i, o) ==
  LET q1 == IF o = "throw"
            THEN [q EXCEPT !.item[i].error =
                     [code |-> "PROCESSOR_ERROR", recoverable |-> FALSE]]
            ELSE q
  IN [queue |-> updateQueueState(q1, i, o = "ok"),
      success |-> (o = "ok"),
      crashed |-> FALSE]

\* start(): every loop runs up to its first await, the dequeue call.
RECURSIVE spawn(_, _)
spawn(q, w) ==
  IF w > workerCount THEN q ELSE spawn(dequeue(q, w), w + 1)

AllDone(n) == \A w \in 1..n : pc[w] \in {"done", "crashed"}
NoneCrashed(n) == \A w \in 1..n : pc[w] # "crashed"

Init ==
  /\ queue = newQueue(Workers)
  /\ pc = [w \in Workers |-> "idle"]
  /\ held = [w \in Workers |-> null]
  /\ outcome = [w \in Workers |-> "none"]
  /\ running = FALSE
  /\ workers = 0
  /\ results = EmptyBag
  /\ wfc = [at |-> "idle", awaits |-> 0]
  /\ sd = [at |-> "idle", awaits |-> 0]
  /\ created = 0
  /\ submitted = {}
  /\ onlyRec = [i \in Ids |-> TRUE]
  /\ app = noApp

\* createQueueItem + enqueue, while fewer than n items were created.
SubmitUpTo(n, p, m) ==
  /\ created < n
  /\ LET i == created + 1
         fresh == [Begin(queue) EXCEPT !.item[i] = createQueueItem(p, m)]
     IN /\ queue' = IF queue.closed THEN enqueue(Begin(queue), i)
                    ELSE enqueue(fresh, i)
        /\ created' = IF queue.closed THEN created ELSE i
        /\ submitted' = IF queue.closed THEN submitted ELSE submitted \cup {i}
  /\ UNCHANGED <<pc, held, outcome, running, workers, results, wfc, sd, onlyRec, app>>

\* createQueueItem twice + enqueueMany.
SubmitManyUpTo(n, p1, p2, m) ==
  /\ created + 2 <= n
  /\ LET i == created + 1
         j == created + 2
         fresh == [Begin(queue) EXCEPT !.item[i] = createQueueItem(p1, m),
                                       !.item[j] = createQueueItem(p2, m)]
     IN /\ queue' = IF queue.closed THEN enqueueMany(Begin(queue), <<i, j>>)
                    ELSE enqueueMany(fresh, <<i, j>>)
        /\ created' = IF queue.closed THEN created ELSE j
        /\ submitted' = IF queue.closed THEN submitted ELSE submitted \cup {i, j}
  /\ UNCHANGED <<pc, held, outcome, running, workers, results, wfc, sd, onlyRec, app>>

\* WorkerPool.submit and WorkerPool.submitMany.
Submit(p, m) == SubmitUpTo(MaxPoolItems, p, m)
SubmitMany(p1, p2, m) == SubmitManyUpTo(MaxPoolItems, p1, p2, m)

\* WorkerPool.start, called once the pool has no loops yet; a call on a
\* running pool returns at once.
Start ==
  /\ running \/ workers = 0
  /\ IF running
     THEN UNCHANGED vars
     ELSE /\ running' = TRUE
          /\ workers' = workerCount
          /\ queue' = spawn(Begin(queue), 1)
          /\ pc' = [w \in Workers |-> "dequeue"]
          /\ UNCHANGED <<held, outcome, results, wfc, sd, created, submitted, onlyRec, app>>

\* OutputManager.getArchiveOutputDir: "__extracted_" and the name without
\* its extension, and without a ".tar" left at its end.
getArchiveOutputDir(file, outputDir) ==
  LET baseName == basename(file.name, file.extension)
      cut == IF Len(baseName) >= 2 /\ baseName[Len(baseName)] = "tar"
             THEN SubSeq(baseName, 1, Len(baseName) - 1)
             ELSE baseName
  IN [dir |-> outputDir, name |-> <<"__extracted_">> \o dotted(cut)]

\* The queue item the application made with identity i.
queueItemOf(a, i) ==
  a.queueItems[CHOOSE k \in 1..Len(a.queueItems) : a.queueItems[k].id = i]

\* What a processor call hands over: copyFile(file.path, outputPath) for a
\* passthrough item, the configuration of skillInvoker.invokeScript for a
\* skill or an archive item.  A path below a course names the course.
handOver(course, item, processor, outputPath, workingDirectory) ==
  [id |-> item.id, method |-> item.routedTo.method, processor |-> processor,
   filePath |-> [course |-> course, dir |-> item.file.relDir, name |-> item.file.name],
   outputPath |-> [course |-> course, dir |-> outputPath.dir, name |-> outputPath.name],
   workingDirectory |-> workingDirectory]

\* Mutant: the skill is given the path resolved anew, without the override
\* of the routing decision.
process_Resolved(a, i) ==
  IF a.at # "submitted" THEN a
  ELSE LET item == queueItemOf(a, i)
           coursePath == [course |-> a.course, dir |-> <<>>]
       IN [a EXCEPT !.calls = @ \cup
            {CASE item.routedTo.method = "passthrough" ->
                    handOver(a.course, item, "copyFile", item.outputPath, "none")
               [] item.routedTo.method = "skill" ->
                    handOver(a.course, item, item.routedTo.skillName,
                             getOutputPath(item.file, validatedFilesPath, noFormat),
                             coursePath)
               [] OTHER ->
                    handOver(a.course, item, item.routedTo.skillName,
                             getArchiveOutputDir(item.file, <<>>), coursePath)}]

\* FileProcessor.process up to its first await: the passthrough copy, or
\* the invocation of the skill or of the archive extractor.  Every queue
\* item of the application has a routing decision, a skill name where the
\* decision needs one, and an output path.
process(a, i) ==
  IF a.at # "submitted" THEN a
  ELSE LET item == queueItemOf(a, i)
           coursePath == [course |-> a.course, dir |-> <<>>]
       IN [a EXCEPT !.calls = @ \cup
            {CASE item.routedTo.method = "passthrough" ->
                    handOver(a.course, item, "copyFile", item.outputPath, "none")
               [] item.routedTo.method = "skill" ->
                    handOver(a.course, item, item.routedTo.skillName,
                             item.outputPath, coursePath)
               [] OTHER ->
                    handOver(a.course, item, item.routedTo.skillName,
                             getArchiveOutputDir(item.file, <<>>), coursePath)}]

\* workerLoop resumes from `await this.queue.dequeue()`.
WorkerResume(w) ==
  /\ pc[w] = "dequeue"
  /\ queue.promise[w] # unresolved
  /\ IF queue.promise[w] = null
     THEN /\ pc' = [pc EXCEPT ![w] = "done"]
          /\ queue' = [Begin(queue) EXCEPT !.promise[w] = unresolved]
          /\ UNCHANGED held
     ELSE LET i == queue.promise[w]
          IN /\ queue' = [Begin(queue) EXCEPT !.item[i].status = "processing",
                                               !.promise[w] = unresolved]
             /\ held' = [held EXCEPT ![w] = i]
             /\ pc' = [pc EXCEPT ![w] = "processor"]
  /\ app' = IF queue.promise[w] = null THEN app ELSE process(app, queue.promise[w])
  /\ UNCHANGED <<outcome, running, workers, results, wfc, sd, created, submitted, onlyRec>>

\* The processor call of worker w settles: it resolves with a success or a
\* failure result, or rejects; a failing processor may have put an error
\* record on the item (the result itself carries none).
ProcessorSettles(w, o, e) ==
  /\ pc[w] = "processor"
  /\ o = "fail" \/ e = "keep"
  /\ pc' = [pc EXCEPT ![w] = "settled"]
  /\ outcome' = [outcome EXCEPT ![w] = o]
  /\ queue' = IF e = "keep" THEN Begin(queue)
              ELSE [Begin(queue) EXCEPT !.item[held[w]].error =
                      [code |-> "PROCESSOR_SET", recoverable |-> (e = "recoverable")]]
  /\ UNCHANGED <<held, running, workers, results, wfc, sd, created, submitted, onlyRec, app>>

\* The progress callback App.processCourse installs: a failed result whose
\* item carries an error is written to the error log.
onProgress(a, success, error) ==
  IF a.at = "submitted" /\ ~success /\ error # noError
  THEN [a EXCEPT !.fs = @ \cup {"error log"}]
  ELSE a

\* Mutant: one result per item, the result of a further attempt on an item
\* is not recorded.
record_OncePerItem(res, i, success) ==
  IF \E e \in BagToSet(res) : e.queueItem = i THEN res
  ELSE res (+) SetToBag({[queueItem |-> i, success |-> success]})

\* `this.results.push(result)`
record(res, i, success) ==
  res (+) SetToBag({[queueItem |-> i, success |-> success]})

\* Mutant: the callback is called before the queue state update and before
\* the result is recorded.
callbackView_BeforeUpdate(q0, q1, res0, res1, i) ==
  [inProcessing |-> i \in q0.processing,
   acquiredAgain |-> FALSE,
   recorded |-> FALSE]

\* What `this.onProgress(result)` finds when it is called for an attempt on
\* item i: q0 and res0 are the queue and the results before the state update
\* of the attempt, q1 and res1 the ones at the call.
callbackView(q0, q1, res0, res1, i) ==
  [inProcessing |-> i \in q1.processing,
   acquiredAgain |-> q1.acquired[i] > q0.acquired[i],
   recorded |-> BagCardinality(res1) > BagCardinality(res0)]

\* `if (this.onProgress) this.onProgress(result)`: the callback of a pool on
\* its own is any function (a.installed: setProgressCallback was called);
\* the pool of the application has the callback of App.processCourse.
invokeCallback(a, q0, q1, res0, res1, i, success) ==
  IF a.at = "pool"
  THEN IF a.installed
       THEN [a EXCEPT !.seen = @ \cup {callbackView(q0, q1, res0, res1, i)},
                      !.invoked = @ + 1]
       ELSE a
  ELSE onProgress(a, success, q1.item[i].error)

\* workerLoop resumes from `await this.processor(item)` and runs to its next
\* await (the next dequeue) or to the end of the loop.
WorkerContinue(w) ==
  /\ pc[w] = "settled"
  /\ LET i == held[w]
         r == settle(Begin(queue), i, outcome[w])
     IN /\ onlyRec' = [onlyRec EXCEPT ![i] =
                         @ /\ outcome[w] = "fail" /\ queue.item[i].error.recoverable]
        /\ IF r.crashed
           THEN /\ queue' = r.queue
                /\ pc' = [pc EXCEPT ![w] = "crashed"]
                /\ UNCHANGED results
           ELSE /\ results' = record(results, i, r.success)
                /\ IF running
                   THEN /\ queue' = dequeue(r.queue, w)
                        /\ pc' = [pc EXCEPT ![w] = "dequeue"]
                   ELSE /\ queue' = r.queue
                        /\ pc' = [pc EXCEPT ![w] = "done"]
  /\ held' = [held EXCEPT ![w] = null]
  /\ outcome' = [outcome EXCEPT ![w] = "none"]
  /\ app' = LET r == settle(Begin(queue), held[w], outcome[w])
            IN IF r.crashed THEN app
               ELSE invokeCallback(app, queue, r.queue, results, results',
                                   held[w], r.success)
  /\ UNCHANGED <<running, workers, wfc, sd, created, submitted>>

\* The same continuation when the progress callback throws: the exception
\* leaves workerLoop after the state update and results.push, and the
\* loop's promise rejects.
CallbackThrows(w) ==
  /\ pc[w] = "settled"
  /\ app.at = "pool" /\ app.installed
  /\ LET i == held[w]
         r == settle(Begin(queue), i, outcome[w])
     IN /\ onlyRec' = [onlyRec EXCEPT ![i] =
                         @ /\ outcome[w] = "fail" /\ queue.item[i].error.recoverable]
        /\ queue' = r.queue
        /\ pc' = [pc EXCEPT ![w] = "crashed"]
        /\ results' = IF r.crashed THEN results
                      ELSE record(results, i, r.success)
        /\ app' = IF r.crashed THEN app
                  ELSE invokeCallback(app, queue, r.queue, results, results',
                                      i, r.success)
  /\ held' = [held EXCEPT ![w] = null]
  /\ outcome' = [outcome EXCEPT ![w] = "none"]
  /\ UNCHANGED <<running, workers, wfc, sd, created, submitted>>

\* waitForCompletion up to `await Promise.all(this.workers)`.
WaitForCompletion ==
  /\ wfc.at = "idle"
  /\ queue' = close(Begin(queue))
  /\ wfc' = [at |-> "awaiting", awaits |-> workers]
  /\ UNCHANGED <<pc, held, outcome, running, workers, results, sd, created, submitted, onlyRec, app>>

\* waitForCompletion resumes once every awaited loop has ended.
WaitReturns ==
  /\ wfc.at = "awaiting"
  /\ AllDone(wfc.awaits) \/ ~NoneCrashed(wfc.awaits)
  /\ wfc' = [wfc EXCEPT !.at = IF NoneCrashed(wfc.awaits) THEN "returned" ELSE "threw"]
  /\ running' = IF NoneCrashed(wfc.awaits) THEN FALSE ELSE running
  /\ UNCHANGED <<queue, pc, held, outcome, workers, results, sd, created, submitted, onlyRec, app>>

\* Mutant: shutdown closes the queue and leaves the running flag alone.
Shutdown_KeepRunning ==
  /\ sd.at = "idle"
  /\ queue' = close(Begin(queue))
  /\ sd' = [at |-> "awaiting", awaits |-> workers]
  /\ UNCHANGED <<pc, held, outcome, running, workers, results, wfc, created, submitted, onlyRec, app>>

\* shutdown up to `await Promise.all(this.workers)`.
Shutdown ==
  /\ sd.at = "idle"
  /\ running' = FALSE
  /\ queue' = close(Begin(queue))
  /\ sd' = [at |-> "awaiting", awaits |-> workers]
  /\ UNCHANGED <<pc, held, outcome, workers, results, wfc, created, submitted, onlyRec, app>>

\* shutdown resumes once every awaited loop has ended.
ShutdownReturns ==
  /\ sd.at = "awaiting"
  /\ AllDone(sd.awaits) \/ ~NoneCrashed(sd.awaits)
  /\ sd' = [sd EXCEPT !.at = IF NoneCrashed(sd.awaits) THEN "returned" ELSE "threw"]
  /\ UNCHANGED <<queue, pc, held, outcome, running, workers, results, wfc, created, submitted, onlyRec, app>>

\* The pool as its owner drives it: submit, start, waitForCompletion.
Next ==
  \/ \E p \in Priorities, m \in AttemptLimits : Submit(p, m)
  \/ \E p1 \in Priorities, p2 \in Priorities, m \in AttemptLimits : SubmitMany(p1, p2, m)
  \/ Start
  \/ \E w \in Workers : WorkerResume(w)
  \/ \E w \in Workers, o \in {"ok", "fail", "throw"}, e \in {"keep", "recoverable", "fatal"} :
       ProcessorSettles(w, o, e)
  \/ \E w \in Workers : WorkerContinue(w)
  \/ WaitForCompletion
  \/ WaitReturns

Spec == Init /\ [][Next]_vars

\* The same pool whose owner may also call shutdown() at any moment.
NextShutdown ==
  \/ Next
  \/ Shutdown
  \/ ShutdownReturns

SpecShutdown == Init /\ [][NextShutdown]_vars

\* ------------------------------------------------ the pool, run to the end
\* start() and then waitForCompletion() are called, every processor call
\* settles, and every continuation whose promise has settled is run.
WaitAfterStart == workers > 0 /\ WaitForCompletion

NextLive ==
  \/ \E p \in Priorities, m \in AttemptLimits : Submit(p, m)
  \/ \E p1 \in Priorities, p2 \in Priorities, m \in AttemptLimits : SubmitMany(p1, p2, m)
  \/ Start
  \/ \E w \in Workers : WorkerResume(w)
  \/ \E w \in Workers, o \in {"ok", "fail", "throw"}, e \in {"keep", "recoverable", "fatal"} :
       ProcessorSettles(w, o, e)
  \/ \E w \in Workers : WorkerContinue(w)
  \/ WaitAfterStart
  \/ WaitReturns

Fairness ==
  /\ WF_vars(Start)
  /\ WF_vars(WaitAfterStart)
  /\ WF_vars(WaitReturns)
  /\ \A w \in Workers :
       /\ WF_vars(WorkerResume(w))
       /\ WF_vars(\E o \in {"ok", "fail", "throw"}, e \in {"keep", "recoverable", "fatal"} :
                    ProcessorSettles(w, o, e))
       /\ WF_vars(WorkerContinue(w))

SpecLive == Init /\ [][NextLive]_vars /\ Fairness

\* --------------------------------------------- the pool with a callback
\* A pool whose owner may have installed a progress callback before it
\* submits; the callback is any function: a call of it returns or throws.
InitCallback ==
  /\ queue = newQueue(Workers)
  /\ pc = [w \in Workers |-> "idle"]
  /\ held = [w \in Workers |-> null]
  /\ outcome = [w \in Workers |-> "none"]
  /\ running = FALSE
  /\ workers = 0
  /\ results = EmptyBag
  /\ wfc = [at |-> "idle", awaits |-> 0]
  /\ sd = [at |-> "idle", awaits |-> 0]
  /\ created = 0
  /\ submitted = {}
  /\ onlyRec = [i \in Ids |-> TRUE]
  /\ \E installed \in BOOLEAN :
       app = [at |-> "pool", installed |-> installed, seen |-> {}, invoked |-> 0]

NextCallback ==
  \/ Next
  \/ \E w \in Workers : CallbackThrows(w)

SpecCallback == InitCallback /\ [][NextCallback]_vars

\* ------------------------------------------- the queue under direct callers
\* Any code may use an AsyncQueue directly: it calls dequeue, and calls
\* markCompleted, markFailed, markSkipped or requeue on the item it was given.
InitQueue ==
  /\ queue = newQueue(Callers)
  /\ pc = [c \in Callers |-> "idle"]
  /\ held = [c \in Callers |-> null]
  /\ outcome = [c \in Callers |-> "none"]
  /\ running = FALSE
  /\ workers = 0
  /\ results = EmptyBag
  /\ wfc = [at |-> "idle", awaits |-> 0]
  /\ sd = [at |-> "idle", awaits |-> 0]
  /\ created = 0
  /\ submitted = {}
  /\ onlyRec = [i \in Ids |-> TRUE]
  /\ app = noApp

poolVars == <<outcome, running, workers, results, wfc, sd, onlyRec, app>>

\* Direct callers submit items of the largest attempt limit, which takes
\* requeue through both of its branches.
QSubmit(p) == SubmitUpTo(MaxItems, p, MaxMaxAttempts)
QSubmitMany(p1, p2) == SubmitManyUpTo(MaxItems, p1, p2, MaxMaxAttempts)

QAcquire(c) ==
  /\ pc[c] = "idle"
  /\ queue' = dequeue(Begin(queue), c)
  /\ pc' = [pc EXCEPT ![c] = "dequeue"]
  /\ UNCHANGED <<held, created, submitted, poolVars>>

\* The caller resumes from its await of dequeue.
QResume(c) ==
  /\ pc[c] = "dequeue"
  /\ queue.promise[c] # unresolved
  /\ held' = [held EXCEPT ![c] = queue.promise[c]]
  /\ pc' = [pc EXCEPT ![c] = IF queue.promise[c] = null THEN "idle" ELSE "holding"]
  /\ queue' = [Begin(queue) EXCEPT !.promise[c] = unresolved]
  /\ UNCHANGED <<created, submitted, poolVars>>

QRelease(c, op) ==
  /\ pc[c] = "holding"
  /\ queue' = CASE op = "complete" -> markCompleted(Begin(queue), held[c])
                [] op = "fail" -> markFailed(Begin(queue), held[c], "HANDLER_ERROR")
                [] op = "skip" -> markSkipped(Begin(queue), held[c])
                [] op = "retry" -> requeue(Begin(queue), held[c])
  /\ held' = [held EXCEPT ![c] = null]
  /\ pc' = [pc EXCEPT ![c] = "idle"]
  /\ UNCHANGED <<created, submitted, poolVars>>

QComplete(c) == QRelease(c, "complete")
QFail(c) == QRelease(c, "fail")
QSkip(c) == QRelease(c, "skip")
QRetry(c) == QRelease(c, "retry")

QClose ==
  /\ ~queue.closed
  /\ queue' = close(Begin(queue))
  /\ UNCHANGED <<pc, held, created, submitted, poolVars>>

NextQueue ==
  \/ \E p \in Priorities : QSubmit(p)
  \/ \E p1 \in Priorities, p2 \in Priorities : QSubmitMany(p1, p2)
  \/ \E c \in Callers : QAcquire(c)
  \/ \E c \in Callers : QResume(c)
  \/ \E c \in Callers : QComplete(c)
  \/ \E c \in Callers : QFail(c)
  \/ \E c \in Callers : QSkip(c)
  \/ \E c \in Callers : QRetry(c)
  \/ QClose

SpecQueue == InitQueue /\ [][NextQueue]_vars

\* ------------------------------------------------------ the router alone
\* Any code may ask the router about any extension, in any letter case.
MaxRouted == 2

Extensions ==
  {<<>>, <<"cpp">>, <<"CPP">>, <<"mp4">>, <<"MP4">>, <<"mp3">>, <<"gz">>,
   <<"GZ">>, <<"tar", "gz">>, <<"TAR", "GZ">>, <<"pdf">>, <<"md">>,
   <<"html">>, <<"xhtml">>, <<"XHTML">>, <<"xyz">>}

InitRouter ==
  /\ queue = newQueue(Workers)
  /\ pc = [w \in Workers |-> "idle"]
  /\ held = [w \in Workers |-> null]
  /\ outcome = [w \in Workers |-> "none"]
  /\ running = FALSE
  /\ workers = 0
  /\ results = EmptyBag
  /\ wfc = [at |-> "idle", awaits |-> 0]
  /\ sd = [at |-> "idle", awaits |-> 0]
  /\ created = 0
  /\ submitted = {}
  /\ onlyRec = [i \in Ids |-> TRUE]
  /\ app = [at |-> "router", decisions |-> <<>>]

\* FileRouter.routeByExtension for a file of the given extension; the
\* decision it returned is kept with the extension it was asked about.
routeByExtension(extension) ==
  /\ app.at = "router"
  /\ Len(app.decisions) < MaxRouted
  /\ app' = [app EXCEPT !.decisions =
               Append(@, [extension |-> extension,
                          decision |-> getRoutingDecision(extension)])]
  /\ UNCHANGED <<queue, pc, held, outcome, running, workers, results, wfc, sd,
                 created, submitted, onlyRec>>

NextRouter == \E extension \in Extensions : routeByExtension(extension)

SpecRouter == InitRouter /\ [][NextRouter]_vars

\* --------------------------------------------------------- the application
\* Mutant: every routed file is queued.
accepted_All(decision) == TRUE

\* App.processCourse: the two `continue` tests on the routing decision.
accepted(decision) == decision.method \notin {"unsupported", "skip"}

\* App.processCourse: the routing decision of every file of the course.
routedFiles(files) ==
  [k \in 1..Len(files) |->
     [file |-> files[k], decision |-> getRoutingDecision(files[k].extension)]]

\* App.processCourse: the queue items built from the files, the n-th of
\* them getting the identity first + n.
RECURSIVE queueItemsOf(_, _)
queueItemsOf(files, first) ==
  IF files = <<>> THEN <<>>
  ELSE LET file == Head(files)
           decision == getRoutingDecision(file.extension)
       IN IF accepted(decision)
          THEN <<[id |-> first + 1, file |-> file, routedTo |-> decision,
                  outputPath |-> getOutputPath(file, validatedFilesPath,
                                               decision.outputFormat)]>>
               \o queueItemsOf(Tail(files), first + 1)
          ELSE queueItemsOf(Tail(files), first)

\* QueueStats
noStats ==
  [total |-> 0, pending |-> 0, processing |-> 0, completed |-> 0, failed |-> 0,
   skipped |-> 0]

\* App.processCourse: the stats a dry run returns for n queue items.
dryRunStats(n) ==
  [total |-> n, pending |-> 0, processing |-> 0, completed |-> n, failed |-> 0,
   skipped |-> 0]

\* CourseDetector.createCourse: `if (!existsSync(codePath)) mkdirSync(...)`,
\* for a course whose directory holds the given files.
mkdirCode(tree) ==
  IF \E k \in 1..Len(tree) : Len(tree[k].dir) > 0 /\ tree[k].dir[1] = "CODE"
  THEN {} ELSE {"CODE directory"}

InitApp ==
  /\ queue = newQueue(Workers)
  /\ pc = [w \in Workers |-> "idle"]
  /\ held = [w \in Workers |-> null]
  /\ outcome = [w \in Workers |-> "none"]
  /\ running = FALSE
  /\ workers = 0
  /\ results = EmptyBag
  /\ wfc = [at |-> "idle", awaits |-> 0]
  /\ sd = [at |-> "idle", awaits |-> 0]
  /\ created = 0
  /\ submitted = {}
  /\ onlyRec = [i \in Ids |-> TRUE]
  /\ \E tree \in Trees, dryRun \in BOOLEAN :
       app = [at |-> "detect", dryRun |-> dryRun, course |-> 1, tree |-> tree,
              files |-> <<>>, routed |-> <<>>, queueItems |-> <<>>,
              stats |-> noStats, fs |-> {}, calls |-> {}]

\* CourseDetector.createCourse makes the CODE directory if the course has
\* none and scans the course directory.
createCourse ==
  /\ app.at = "detect"
  /\ app' = [app EXCEPT !.at = "course",
                        !.files = scanDirectory(app.tree),
                        !.fs = @ \cup mkdirCode(app.tree)]
  /\ UNCHANGED <<queue, pc, held, outcome, running, workers, results, wfc, sd,
                 created, submitted, onlyRec>>

\* App.processCourse up to `await workerPool.submitMany(queueItems)`, on a
\* pool and a queue of its own; in a dry run, up to its return with the
\* stats it makes up.
processCourse ==
  /\ app.at = "course"
  /\ LET items == queueItemsOf(app.files, 0)
         ids == [k \in 1..Len(items) |-> items[k].id]
         new == {items[k].id : k \in 1..Len(items)}
         fresh == [newQueue(Workers) EXCEPT !.item =
                     [i \in Ids |-> IF i \in new
                                    THEN createQueueItem(0, DefaultMaxAttempts)
                                    ELSE createQueueItem(0, 0)]]
         routed == routedFiles(app.files)
         written == (IF app.dryRun THEN {} ELSE {"output directories"})
                    \cup (IF \E k \in 1..Len(routed) : routed[k].decision.method = "unsupported"
                          THEN {"error log"} ELSE {})
     IN IF app.dryRun
        THEN /\ app' = [app EXCEPT !.at = "finished",
                                   !.routed = routed,
                                   !.queueItems = items,
                                   !.stats = dryRunStats(Len(items)),
                                   !.fs = @ \cup written]
             /\ UNCHANGED <<queue, pc, held, outcome, running, workers, results,
                            wfc, created, submitted, onlyRec>>
        ELSE /\ queue' = enqueueMany(fresh, ids)
             /\ pc' = [w \in Workers |-> "idle"]
             /\ held' = [w \in Workers |-> null]
             /\ outcome' = [w \in Workers |-> "none"]
             /\ running' = FALSE
             /\ workers' = 0
             /\ results' = EmptyBag
             /\ wfc' = [at |-> "idle", awaits |-> 0]
             /\ created' = Len(items)
             /\ submitted' = new
             /\ onlyRec' = [i \in Ids |-> TRUE]
             /\ app' = [app EXCEPT !.at = "submitted",
                                   !.routed = routed,
                                   !.queueItems = items,
                                   !.fs = @ \cup written]
  /\ UNCHANGED sd

\* App.processCourse: `await workerPool.start()`.
AppStart == app.at = "submitted" /\ workers = 0 /\ Start

\* App.processCourse: `await workerPool.waitForCompletion()`.
AppWait == app.at = "submitted" /\ workers = workerCount /\ WaitForCompletion

\* App.processCourse from the return of waitForCompletion to its own
\* return: it reads the stats and writes the summary to the error log.
processCourseReturns ==
  /\ app.at = "submitted"
  /\ wfc.at = "returned"
  /\ app' = [app EXCEPT !.at = "finished",
                        !.stats = getStats(queue),
                        !.fs = @ \cup {"error log"}]
  /\ UNCHANGED <<queue, pc, held, outcome, running, workers, results, wfc, sd,
                 created, submitted, onlyRec>>

\* How a FileProcessor.process call can go: its step is done, the copy
\* fails, the skill reports a failure, the script runs into its timeout, a
\* step throws, or the item lacks its routing decision or its output path.
ProcessorCauses ==
  {"done", "copy failed", "skill failed", "timeout", "threw", "not routed",
   "no output path"}

\* Mutant: a timeout marks the item's error as recoverable.
fileProcessorResult_RetryTimeout(cause) ==
  [outcome |-> IF cause = "done" THEN "ok" ELSE "fail",
   error |-> IF cause = "timeout" THEN "recoverable" ELSE "keep"]

\* FileProcessor.process catches what its steps throw and resolves with a
\* success or a failure result; it never puts an error on the item.
fileProcessorResult(cause) ==
  [outcome |-> IF cause = "done" THEN "ok" ELSE "fail", error |-> "keep"]

\* The processor call of worker w, a FileProcessor.process call, settles.
FileProcessorSettles(w, cause) ==
  ProcessorSettles(w, fileProcessorResult(cause).outcome,
                   fileProcessorResult(cause).error)

NextApp ==
  \/ createCourse
  \/ processCourse
  \/ AppStart
  \/ \E w \in Workers : WorkerResume(w)
  \/ \E w \in Workers, cause \in ProcessorCauses : FileProcessorSettles(w, cause)
  \/ \E w \in Workers : WorkerContinue(w)
  \/ AppWait
  \/ WaitReturns
  \/ processCourseReturns

SpecApp == InitApp /\ [][NextApp]_vars

\* ------------------------------------------------------------- a whole run
\* main and App.run over an input directory of several courses; each
\* course is a directory tree as above.
MaxCourses == 2

RunEntries ==
  {[dir |-> <<>>, name |-> <<"main", "cpp">>],
   [dir |-> <<>>, name |-> <<"doc", "pdf">>],
   [dir |-> <<>>, name |-> <<"notes", "xyz">>],
   [dir |-> <<>>, name |-> <<"clip", "mp4">>],
   [dir |-> <<"CODE", "project1">>, name |-> <<"main", "cpp">>]}

RunTrees == {t \in Trees : \A k \in 1..Len(t) : t[k] \in RunEntries}

Inputs == UNION {[1..n -> RunTrees] : n \in 0..MaxCourses}

InitRun ==
  /\ queue = newQueue(Workers)
  /\ pc = [w \in Workers |-> "idle"]
  /\ held = [w \in Workers |-> null]
  /\ outcome = [w \in Workers |-> "none"]
  /\ running = FALSE
  /\ workers = 0
  /\ results = EmptyBag
  /\ wfc = [at |-> "idle", awaits |-> 0]
  /\ sd = [at |-> "idle", awaits |-> 0]
  /\ created = 0
  /\ submitted = {}
  /\ onlyRec = [i \in Ids |-> TRUE]
  /\ \E dryRun \in BOOLEAN, inputExists \in BOOLEAN, trees \in Inputs :
       /\ inputExists \/ trees = <<>>
       /\ app = [at |-> "main", dryRun |-> dryRun, inputExists |-> inputExists,
                 trees |-> trees, courses |-> <<>>, course |-> 0,
                 tree |-> <<>>, files |-> <<>>, routed |-> <<>>,
                 queueItems |-> <<>>, stats |-> noStats, fs |-> {},
                 calls |-> {}, courseResults |-> <<>>, totalStats |-> noStats,
                 success |-> FALSE, exit |-> "none"]

\* CourseDetector.detectCourses: a course for every directory of the input
\* root, each scanned by createCourse.
detectCourses(inputExists, trees) ==
  IF inputExists THEN [k \in 1..Len(trees) |-> scanDirectory(trees[k])]
  ELSE <<>>

\* Mutant: the run sums the completed counts into the total as well.
addStats_Completed(totalStats, stats) ==
  [totalStats EXCEPT !.total = @ + stats.completed,
                     !.completed = @ + stats.completed,
                     !.failed = @ + stats.failed,
                     !.skipped = @ + stats.skipped]

\* App.run, "Aggregate stats".
addStats(totalStats, stats) ==
  [totalStats EXCEPT !.total = @ + stats.total,
                     !.completed = @ + stats.completed,
                     !.failed = @ + stats.failed,
                     !.skipped = @ + stats.skipped]

\* Mutant: the run is a success when something was completed.
success_SomeCompleted(totalStats) ==
  totalStats.completed > 0 \/ totalStats.total = 0

\* App.run: `success: totalStats.failed === 0`.
success(totalStats) == totalStats.failed = 0

\* Mutant: the loop over the courses ends at a course with a failed item.
moreCourses_StopOnFailure(course, n) == course < n /\ app.stats.failed = 0

\* App.run: `for (const course of detection.courses)` has a next course.
moreCourses(course, n) == course < n

\* main: process.exit(0) on success, process.exit(1) otherwise.
exitCode(ok) == IF ok THEN 0 ELSE 1

\* App.run from its start to the first processCourse call, or to its
\* return when no course was found.
run ==
  /\ app.at = "main"
  /\ LET courses == detectCourses(app.inputExists, app.trees)
         made == UNION {mkdirCode(app.trees[k]) : k \in 1..Len(courses)}
     IN IF Len(courses) = 0
        THEN app' = [app EXCEPT !.at = "returned", !.success = FALSE,
                                !.exit = exitCode(FALSE)]
        ELSE app' = [app EXCEPT !.at = "course", !.courses = courses,
                                !.course = 1, !.tree = app.trees[1],
                                !.files = courses[1], !.fs = @ \cup made]
  /\ UNCHANGED <<queue, pc, held, outcome, running, workers, results, wfc, sd,
                 created, submitted, onlyRec>>

\* App.run resumes from `await this.processCourse(course)`: it adds the
\* course's stats to the totals and goes on to the next course, or returns
\* after the last one (content generation does not touch the stats).
courseProcessed ==
  /\ app.at = "finished"
  /\ "courseResults" \in DOMAIN app
  /\ LET totalStats == addStats(app.totalStats, app.stats)
         done == [app EXCEPT !.courseResults = Append(@, app.stats),
                             !.totalStats = totalStats]
     IN IF moreCourses(app.course, Len(app.courses))
        THEN app' = [done EXCEPT !.at = "course", !.course = @ + 1,
                                 !.tree = app.trees[app.course + 1],
                                 !.files = app.courses[app.course + 1],
                                 !.routed = <<>>, !.queueItems = <<>>,
                                 !.stats = noStats]
        ELSE app' = [done EXCEPT !.at = "returned",
                                 !.success = success(totalStats),
                                 !.exit = exitCode(success(totalStats))]
  /\ UNCHANGED <<queue, pc, held, outcome, running, workers, results, wfc, sd,
                 created, submitted, onlyRec>>

NextRun ==
  \/ run
  \/ processCourse
  \/ AppStart
  \/ \E w \in Workers : WorkerResume(w)
  \/ \E w \in Workers, cause \in ProcessorCauses : FileProcessorSettles(w, cause)
  \/ \E w \in Workers : WorkerContinue(w)
  \/ AppWait
  \/ WaitReturns
  \/ processCourseReturns
  \/ courseProcessed

SpecRun == InitRun /\ [][NextRun]_vars

\* =============================================================== properties
InItems(q, i) == \E k \in 1..Len(q.items) : q.items[k] = i

\* The collection an item is counted in, as getStats counts it.
StateOf(q, i) ==
  CASE InItems(q, i) -> "pending"
    [] i \in q.processing -> "processing"
    [] i \in q.completed -> "completed"
    [] i \in q.failed -> "failed"
    [] i \in q.skipped -> "skipped"
    [] OTHER -> "none"

\* In how many of the five collections an item sits.
Memberships(q, i) ==
  Cardinality({k \in 1..Len(q.items) : q.items[k] = i})
  + (IF i \in q.processing THEN 1 ELSE 0)
  + (IF i \in q.completed THEN 1 ELSE 0)
  + (IF i \in q.failed THEN 1 ELSE 0)
  + (IF i \in q.skipped THEN 1 ELSE 0)

Terminal(q, i) == i \in q.completed \cup q.failed \cup q.skipped

\* ---------------------------------------------------------------------- C1
\* C1: whatever the interleaving of submit, acquire, complete, fail, skip,
\* retry and close, the number of items in the processing state never
\* exceeds the concurrency limit W the queue was built with.
C1_ConcurrencyLimit == Cardinality(queue.processing) <= workerCount

\* The limit is reached while an item is pending and a caller is suspended
\* in dequeue: only the limit keeps that item from being handed out.
C1_Witness ==
  /\ Cardinality(queue.processing) = workerCount
  /\ Len(queue.items) > 0
  /\ Len(queue.waiters) > 0

\* ---------------------------------------------------------------------- C2
\* C2: every submitted item sits in exactly one of the five collections
\* and its status field names that collection; in particular no item is
\* counted as processing while its status still reads pending.
C2_StatusNamesCollection ==
  \A i \in submitted :
    /\ Memberships(queue, i) = 1
    /\ queue.item[i].status = StateOf(queue, i)

\* The part of C2 the queue does keep: each submitted item is in exactly
\* one collection.
C2_ExactlyOneCollection == \A i \in submitted : Memberships(queue, i) = 1

\* ---------------------------------------------------------------------- C3
\* C3: no item vanishes and none is counted twice: stats().total equals
\* the number of items ever submitted, and equals the sum of the pending,
\* processing, completed, failed and skipped counts.
C3_Conservation ==
  LET st == getStats(queue)
  IN /\ st.total = Cardinality(submitted)
     /\ st.total = st.pending + st.processing + st.completed + st.failed + st.skipped
     /\ \A i \in submitted : Memberships(queue, i) = 1

\* Three items were submitted; one was skipped, one failed, and one is
\* pending again after a retry.
C3_Witness ==
  /\ Cardinality(submitted) = MaxItems
  /\ queue.skipped # {}
  /\ queue.failed # {}
  /\ \E i \in submitted : InItems(queue, i) /\ queue.item[i].attempts > 0

\* ---------------------------------------------------------------------- C4
\* One step seen from item i: the edge of the lifecycle graph it follows.
\* A step may run two edges in a row (a submit or a retry that hands the
\* item to a suspended caller at once).
C4_Edge(i) ==
  LET a == StateOf(queue, i)
      b == StateOf(queue', i)
      it == queue.item[i]
      it2 == queue'.item[i]
      acquiredAgain == queue'.acquired[i] = queue.acquired[i] + 1
      notAcquired == queue'.acquired[i] = queue.acquired[i]
  IN CASE a = "none" ->
            \/ b = "none"
            \/ b = "pending" /\ notAcquired /\ it2.attempts = 0
            \/ b = "processing" /\ acquiredAgain /\ it2.attempts = 0
       [] a = "pending" ->
            \/ b = "pending" /\ notAcquired /\ it2 = it
            \/ b = "processing" /\ acquiredAgain /\ it2 = it
       [] a = "processing" ->
            \/ b = "processing" /\ notAcquired /\ it2.attempts = it.attempts
            \/ b = "processing" /\ acquiredAgain /\ it2.attempts = it.attempts + 1
            \/ b = "pending" /\ notAcquired /\ it2.attempts = it.attempts + 1
                 /\ it2.status = "pending"
            \/ b = "completed" /\ notAcquired /\ it2.attempts = it.attempts
                 /\ it2.status = "completed"
            \/ b = "failed" /\ notAcquired /\ it2.status = "failed"
                 /\ it2.attempts \in {it.attempts, it.attempts + 1}
            \/ b = "skipped" /\ notAcquired /\ it2.attempts = it.attempts
                 /\ it2.status = "skipped"
       [] OTHER -> b = a /\ notAcquired /\ it2 = it

\* C4: every state change of an item follows an edge of the lifecycle
\* graph (pending -> processing by acquire; processing -> completed, ->
\* pending with attempts + 1 by retry, -> failed, -> skipped), and an item
\* in completed, failed or skipped is never acquired again, never changes
\* state and keeps every field as it is.
C4_Lifecycle == [][\A i \in Ids : C4_Edge(i)]_vars

\* An item completed on its second attempt (pending, processing, pending,
\* processing, completed) next to an item that failed.
C4_Witness ==
  /\ \E i \in queue.completed : queue.item[i].attempts > 0
  /\ queue.failed # {}

\* ---------------------------------------------------------------------- C5
Position(s, x) == CHOOSE k \in 1..Len(s) : s[k] = x

\* Ids are given out in submission order.
SubmittedBefore(a, x, y) == x < y
BecamePendingBefore(a, x, y) == Position(a.pending, x) < Position(a.pending, y)

\* Every acquisition took an item of the smallest pending priority and,
\* among the pending items of that priority, the one that ranks first: by
\* submission, or by entry into pending.
BestOf(bySubmission) ==
  \A k \in 1..Len(queue.acq) :
    LET a == queue.acq[k]
    IN \A n \in 1..Len(a.pending) :
         LET j == a.pending[n]
         IN j # a.id =>
              \/ queue.item[a.id].priority < queue.item[j].priority
              \/ /\ queue.item[a.id].priority = queue.item[j].priority
                 /\ IF bySubmission THEN SubmittedBefore(a, a.id, j)
                    ELSE BecamePendingBefore(a, a.id, j)

C6_RetryExhaustion ==
  \A i \in submitted :
    LET it == queue.item[i]
        n == queue.acquired[i]
    IN (onlyRec[i] /\ it.maxAttempts >= 1) =>
         /\ n <= it.maxAttempts
         /\ i \notin queue.completed
         /\ i \notin queue.skipped
         /\ it.attempts <= n
         /\ i \in queue.failed <=> (n = it.maxAttempts /\ i \notin queue.processing)
         /\ i \in queue.failed => (it.error.code = "MAX_ATTEMPTS" /\ it.attempts = n)

\* An item with maxAttempts = 2 that failed recoverably twice and is failed.
C6_Witness ==
  \E i \in queue.failed :
    /\ onlyRec[i]
    /\ queue.item[i].maxAttempts = MaxMaxAttempts
    /\ queue.acquired[i] = MaxMaxAttempts

\* ---------------------------------------------------------------------- C7
\* The step in which worker w routes the item of its settled attempt.
C7_Route(w) ==
  LET i == held[w]
      it == queue.item[i]
      it2 == queue'.item[i]
  IN (pc[w] = "settled" /\ pc'[w] # "settled") =>
       CASE outcome[w] = "ok" ->
              /\ i \in queue'.completed
              /\ it2.attempts = it.attempts
         [] outcome[w] = "fail" /\ it.error.recoverable
            /\ it.attempts < it.maxAttempts ->
              /\ it2.attempts = it.attempts + 1
              /\ IF it2.attempts < it.maxAttempts
                 THEN StateOf(queue', i) \in {"pending", "processing"}
                 ELSE i \in queue'.failed /\ it2.error.code = "MAX_ATTEMPTS"
         [] OTHER ->
              /\ i \in queue'.failed
              /\ it2.attempts = it.attempts
              /\ queue'.acquired[i] = queue.acquired[i]
              /\ it2.error.code = (IF outcome[w] = "throw" THEN "PROCESSOR_ERROR"
                                   ELSE IF it.error = noError THEN "UNKNOWN"
                                   ELSE it.error.code)

\* C7: after each attempt the worker moves the item: a success result to
\* completed; a failure whose error record is recoverable while attempts <
\* maxAttempts to retry; every other failure (thrown exception,
\* non-recoverable error, no error record, no attempts left) to failed at
\* once, without counting an attempt and without another acquisition.
C7_Routing == [][\A w \in Workers : C7_Route(w)]_vars

\* One item failed at once on a failure without error record although it
\* had attempts left; the other was retried and then completed.
C7_Witness ==
  /\ \E i \in queue.failed :
       /\ queue.item[i].error.code = "UNKNOWN"
       /\ queue.item[i].attempts = 0
       /\ queue.item[i].maxAttempts > 0
  /\ \E j \in queue.completed : queue.item[j].attempts > 0

\* ---------------------------------------------------------------------- C8
\* The step in which worker w resumes from a processor call that failed or
\* threw: the loop goes on to its next dequeue, no other loop and no call of
\* the owner is touched, and an item other than the failed one keeps its
\* record and its state, unless it is the pending item a loop acquires next.
C8_Isolated(w) ==
  LET i == held[w]
  IN (pc[w] = "settled" /\ outcome[w] \in {"fail", "throw"} /\ pc'[w] # "settled") =>
       /\ pc'[w] = "dequeue"
       /\ \A v \in Workers \ {w} :
            pc'[v] = pc[v] /\ held'[v] = held[v] /\ outcome'[v] = outcome[v]
       /\ running' = running /\ workers' = workers /\ wfc' = wfc /\ sd' = sd
       /\ \A j \in Ids \ {i} :
            /\ queue'.item[j] = queue.item[j]
            /\ \/ StateOf(queue', j) = StateOf(queue, j)
               \/ StateOf(queue, j) = "pending" /\ StateOf(queue', j) = "processing"

\* C8: a failure result or a thrown exception of the processor for one
\* item changes only that item: it ends no worker loop and not the pool, it
\* changes no other item, and every submitted item still reaches a terminal
\* state.
C8_FailureIsolation ==
  /\ [][\A w \in Workers : C8_Isolated(w)]_vars
  /\ \A i \in Ids : (i \in submitted) ~> Terminal(queue, i)

\* The processor threw for one item; the other item was completed, every
\* loop ended normally and waitForCompletion returned.
C8_Witness ==
  /\ \E i \in queue.failed : queue.item[i].error.code = "PROCESSOR_ERROR"
  /\ queue.completed # {}
  /\ \A w \in Workers : pc[w] = "done"
  /\ wfc.at = "returned"

\* ---------------------------------------------------------------------- C9
\* C9: when start() and then waitForCompletion() are called and every
\* processor call settles, then under fair scheduling every submitted item
\* ends up completed or failed, all W loops exit, and waitForCompletion
\* returns.
C9_Termination ==
  <>[](/\ wfc.at = "returned"
       /\ \A w \in Workers : pc[w] = "done"
       /\ \A i \in submitted : i \in queue.completed \cup queue.failed)

\* waitForCompletion returned on a pool that was given both items, one of
\* which was retried before it completed; both loops have exited.
C9_Witness ==
  /\ wfc.at = "returned"
  /\ Cardinality(submitted) = MaxPoolItems
  /\ \A i \in submitted : Terminal(queue, i)
  /\ \E i \in queue.completed : queue.item[i].attempts > 0
  /\ \A w \in Workers : pc[w] = "done"

\* --------------------------------------------------------------------- C10
Drained(q) ==
  LET st == getStats(q)
  IN /\ st.pending = 0
     /\ st.processing = 0
     /\ st.completed + st.failed + st.skipped = st.total

\* waitForCompletion() has been called, and start() before it.
StartedFirst == wfc.at # "idle" /\ wfc.awaits = workerCount

NoLoopLeftWork ==
  /\ wfc.at = "returned" => Drained(queue)
  /\ (\E w \in Workers : pc[w] = "done") => Len(queue.items) = 0

\* C10 as stated: whenever waitForCompletion() returns on a pool that was
\* started before, no item is pending or processing and completed + failed
\* + skipped = total; and no loop has exited while an item was pending.
C10_Drained == StartedFirst => NoLoopLeftWork

\* C10 amended: the same, on a pool whose shutdown() has not been called.
C10_DrainedUnlessShutdown == (StartedFirst /\ sd.at = "idle") => NoLoopLeftWork

\* waitForCompletion returned, without any shutdown, on a started pool that
\* was given both items, one of which went back to pending in between.
C10_Witness ==
  /\ wfc.at = "returned"
  /\ wfc.awaits = workerCount
  /\ sd.at = "idle"
  /\ Cardinality(submitted) = MaxPoolItems
  /\ \E i \in submitted : queue.item[i].attempts > 0

\* --------------------------------------------------------------------- C11
\* C11: on a started pool that was given no item, waitForCompletion()
\* leads to every loop having got the no-more-work value and exited, none
\* left suspended, and to its own return with an empty result list.
C11_ClosedQueueWakeup ==
  (wfc.at = "awaiting" /\ submitted = {}) ~>
    (/\ wfc.at = "returned"
     /\ \A w \in Workers : pc[w] = "done"
     /\ Len(queue.waiters) = 0
     /\ results = EmptyBag)

\* waitForCompletion returned on a started pool that never got an item.
C11_Witness ==
  /\ wfc.at = "returned"
  /\ wfc.awaits = workerCount
  /\ created = 0
  /\ \A w \in Workers : pc[w] = "done"

\* --------------------------------------------------------------------- C12
\* The callers that are given the no-more-work value in this step.
GivenNull(c) == queue.promise[c] # null /\ queue'.promise[c] = null

\* C12: acquire() answers with the no-more-work value only when the queue
\* is closed and no item is pending and none is processing.
C12_NullOnlyWhenDrained ==
  [][\A c \in DOMAIN queue.promise :
       GivenNull(c) => /\ queue'.closed
                       /\ Len(queue'.items) = 0
                       /\ queue'.processing = {}]_vars

\* What dequeue and close do guarantee: the no-more-work value is given
\* only on a closed queue.
C12_NullOnlyWhenClosed ==
  [][\A c \in DOMAIN queue.promise : GivenNull(c) => queue'.closed]_vars

\* --------------------------------------------------------------------- C13
\* Caller c awaits a dequeue promise that is not resolved.
Suspended(c) == pc[c] = "dequeue" /\ queue.promise[c] = unresolved

\* C13: close() releases every caller suspended at that moment with the
\* no-more-work value, and on a closed queue no caller is suspended.
C13_CloseReleases ==
  /\ [](queue.closed =>
          /\ Len(queue.waiters) = 0
          /\ \A c \in DOMAIN queue.promise : ~Suspended(c))
  /\ [][(~queue.closed /\ queue'.closed) =>
          \A k \in 1..Len(queue.waiters) :
            queue'.promise[queue.waiters[k]] = null]_vars

\* A closed queue that never held an item, with two callers that were told
\* there is no more work and have not resumed yet.
C13_Witness ==
  /\ queue.closed
  /\ created = 0
  /\ Cardinality({c \in DOMAIN queue.promise :
                    pc[c] = "dequeue" /\ queue.promise[c] = null}) >= 2

\* --------------------------------------------------------------------- C14
\* Nothing is acquired and no pending item leaves pending in this step.
NoAcquisition ==
  /\ \A i \in Ids : queue'.acquired[i] = queue.acquired[i]
  /\ \A i \in Ids : InItems(queue, i) => InItems(queue', i)

ShutdownDone ==
  /\ \A w \in Workers : pc[w] \in {"idle", "done"}
  /\ queue.processing = {}

\* C14 as stated: once shutdown() was called no loop acquires an item,
\* pending items stay pending, and shutdown() returns only when every loop
\* has exited and nothing is processing.
C14_ShutdownStops ==
  /\ [][sd.at # "idle" => NoAcquisition]_vars
  /\ [](sd.at = "returned" => ShutdownDone)

\* shutdown() was called on a pool that start() had been called on.
ShutdownAfterStart == sd.at # "idle" /\ sd.awaits = workerCount

\* C14 amended: the same for a shutdown() of a started pool.
C14_ShutdownOfStartedPoolStops ==
  /\ [][ShutdownAfterStart => NoAcquisition]_vars
  /\ []((ShutdownAfterStart /\ sd.at = "returned") => ShutdownDone)

\* shutdown() returned on a started pool: an attempt has been recorded, an
\* item is still pending and nothing is processing.
C14_Witness ==
  /\ sd.at = "returned"
  /\ sd.awaits = workerCount
  /\ Len(queue.items) > 0
  /\ results # EmptyBag
  /\ queue.processing = {}

\* --------------------------------------------------------------------- C15
AcqIndex(q, i) == CHOOSE n \in 1..Len(q.acq) : q.acq[n].id = i

\* Caller c, suspended before this step, is handed an item in it.
Served(c) == queue.promise[c] = unresolved /\ queue'.promise[c] \in Ids

\* C15: whenever an item is handed to a suspended caller, every caller
\* that suspended before it has been handed one too, and was handed it
\* earlier.
C15_WaitersFifo ==
  [][\A k \in 1..Len(queue.waiters), l \in 1..Len(queue.waiters) :
       (k < l /\ Served(queue.waiters[l])) =>
         /\ Served(queue.waiters[k])
         /\ AcqIndex(queue', queue'.promise[queue.waiters[k]])
              < AcqIndex(queue', queue'.promise[queue.waiters[l]])]_vars

\* Two suspended callers were served by one submitMany, in the order they
\* suspended, while a third is still suspended.
C15_Witness ==
  /\ Len(queue.acq) = 2
  /\ Len(queue.waiters) = 1
  /\ \E c \in DOMAIN queue.promise, d \in DOMAIN queue.promise :
       /\ c # d
       /\ pc[c] = "dequeue" /\ queue.promise[c] = queue.acq[1].id
       /\ pc[d] = "dequeue" /\ queue.promise[d] = queue.acq[2].id

\* --------------------------------------------------------------------- C16
Methods == {"passthrough", "skill", "archive", "skip", "unsupported"}

\* The table that decides a case-normalised extension: the first, in the
\* order skip-set, passthrough-set, skill-table, that lists it.
FirstTable(e) ==
  IF e \in SKIP_EXTENSIONS THEN "skip"
  ELSE IF e \in TEXT_EXTENSIONS THEN "passthrough"
  ELSE IF e \in DOMAIN SKILL_MAPPINGS THEN "skill-table"
  ELSE "none"

DecidedBy(e, d) ==
  CASE FirstTable(e) = "skip" -> d.method = "skip"
    [] FirstTable(e) = "passthrough" ->
         d.method = "passthrough" /\ d.outputFormat = format(e)
    [] FirstTable(e) = "skill-table" ->
         /\ d.method \in {"skill", "archive"}
         /\ d.method = "archive" <=> SKILL_MAPPINGS[e].outputFormat = directory
         /\ d.skillName = SKILL_MAPPINGS[e].skill
         /\ d.outputFormat = SKILL_MAPPINGS[e].outputFormat
    [] OTHER -> d.method = "unsupported"

\* C16: every decision the router returns is one of the five variants and
\* is the one of the first table, in the order skip-set, passthrough-set,
\* skill-table, that lists the lower-cased extension (unsupported when none
\* does); two extensions that differ only in letter case get equal
\* decisions.
C16_RoutingPrecedence ==
  app.at = "router" =>
    /\ \A k \in 1..Len(app.decisions) :
         /\ app.decisions[k].decision.method \in Methods
         /\ DecidedBy(lowerAll(app.decisions[k].extension), app.decisions[k].decision)
    /\ \A k \in 1..Len(app.decisions), l \in 1..Len(app.decisions) :
         lowerAll(app.decisions[k].extension) = lowerAll(app.decisions[l].extension)
           => app.decisions[k].decision = app.decisions[l].decision

\* The router was asked about an upper-case skip-set extension and about
\* the same compound extension in both letter cases.
C16_Witness ==
  /\ app.at = "router"
  /\ \E k \in 1..Len(app.decisions) :
       /\ app.decisions[k].extension = <<"MP4">>
       /\ app.decisions[k].decision.method = "skip"
  /\ \E k \in 1..Len(app.decisions) :
       /\ app.decisions[k].extension \in {<<"TAR", "GZ">>, <<"CPP">>}
       /\ app.decisions[k].decision.method \in {"archive", "passthrough"}

\* --------------------------------------------------------------------- C17
\* The course was scanned and its files were routed and submitted.
Routed == app.at = "submitted"

InNoTable(extension) ==
  /\ lowerAll(extension) \notin SKIP_EXTENSIONS
  /\ lowerAll(extension) \notin TEXT_EXTENSIONS
  /\ lowerAll(extension) \notin DOMAIN SKILL_MAPPINGS

\* The queue item of file f, if the application made one.
QueuedFile(f) ==
  \E k \in 1..Len(app.queueItems) : app.queueItems[k].file = f

\* C17: a file whose extension is in no table was routed unsupported; no
\* file routed unsupported or skip has a queue item; and every item that
\* is pending or processing carries a decision of passthrough, skill or
\* archive.
C17_OnlyRoutableSubmitted ==
  Routed =>
    /\ \A k \in 1..Len(app.routed) :
         /\ InNoTable(app.routed[k].file.extension)
              => app.routed[k].decision.method = "unsupported"
         /\ app.routed[k].decision.method \in {"unsupported", "skip"}
              => ~QueuedFile(app.routed[k].file)
    /\ \A i \in Ids :
         (InItems(queue, i) \/ i \in queue.processing) =>
           \E k \in 1..Len(app.queueItems) :
             /\ app.queueItems[k].id = i
             /\ app.queueItems[k].routedTo.method \in {"passthrough", "skill", "archive"}

\* A course with a file of an unknown extension and a routable file: the
\* first was left out, the second is being processed.
C17_Witness ==
  /\ Routed
  /\ \E k \in 1..Len(app.routed) :
       /\ InNoTable(app.routed[k].file.extension)
       /\ app.routed[k].decision.method = "unsupported"
  /\ Len(app.queueItems) = 1
  /\ queue.processing = {app.queueItems[1].id}
  /\ \E w \in Workers : pc[w] = "processor"

\* --------------------------------------------------------------------- C18
\* The extension a name carries, whatever its letter case, is in the
\* skip-set.
SkipName(name) == lowerAll(extname(name)) \in SKIP_EXTENSIONS

\* C18: once the course is scanned, no file of the scanner's output has a
\* skip-set extension, in the letter case of its name or lower-cased, and
\* so no routed file and no queue item has one.
C18_ScannerDropsMedia ==
  app.at \in {"course", "submitted"} =>
    /\ \A k \in 1..Len(app.files) :
         /\ ~SkipName(app.files[k].name)
         /\ app.files[k].extension \notin SKIP_EXTENSIONS
    /\ \A k \in 1..Len(app.routed) :
         /\ ~SkipName(app.routed[k].file.name)
         /\ app.routed[k].decision.method # "skip"
    /\ \A k \in 1..Len(app.queueItems) : ~SkipName(app.queueItems[k].file.name)

\* A course holding an upper-case video file next to a source file was
\* scanned: only the source file is in the output, and it was queued.
C18_Witness ==
  /\ app.at = "submitted"
  /\ \E k \in 1..Len(app.tree) :
       app.tree[k] = [dir |-> <<>>, name |-> <<"clip", "MP4">>]
  /\ Len(app.files) = 1
  /\ app.files[1].name = <<"main", "cpp">>
  /\ Len(app.queueItems) = 1

\* --------------------------------------------------------------------- C19
\* The queue item is that of CODE/project1/main.cpp.
ScenarioD(item) ==
  /\ item.file.relDir = <<"CODE", "project1">>
  /\ item.file.name = <<"main", "cpp">>

\* C19: the file CODE/project1/main.cpp of a course, routed without an
\* override that changes its extension, is given the output path
\* <destination root>/project1_main.cpp.
C19_ScenarioD ==
  Routed =>
    \A k \in 1..Len(app.queueItems) :
      ScenarioD(app.queueItems[k]) =>
        app.queueItems[k].outputPath =
          [dir |-> validatedFilesPath,
           name |-> <<"project1", "_", "main", ".", "cpp">>]

\* What the code resolves for that file: the CODE directory is part of the
\* flattened prefix.
C19_CodePrefix ==
  Routed =>
    \A k \in 1..Len(app.queueItems) :
      ScenarioD(app.queueItems[k]) =>
        app.queueItems[k].outputPath =
          [dir |-> validatedFilesPath,
           name |-> <<"CODE", "_", "project1", "_", "main", ".", "cpp">>]

\* --------------------------------------------------------------------- C20
\* The extension the path of a queue item ends with: the override of the
\* routing decision unless there is none or it is "directory".
OutputExtension(item) ==
  IF item.routedTo.outputFormat.kind = "ext"
  THEN item.routedTo.outputFormat.ext
  ELSE item.file.extension

\* The name without its extension, whatever the letter case of either.
Stripped(file) == SubSeq(file.name, 1, Len(file.name) - Len(file.extension))

Destination(item) ==
  [dir |-> validatedFilesPath,
   name |-> flattened(item.file.relDir) \o dotted(Stripped(item.file))
              \o withDots(OutputExtension(item))]

\* C20: the output path of every queue item is the destination root joined
\* with the flattened directory prefix, the file name without its original
\* extension, and the override extension or else the file's extension.
C20_Destination ==
  Routed =>
    \A k \in 1..Len(app.queueItems) :
      app.queueItems[k].outputPath = Destination(app.queueItems[k])

\* What the code guarantees: the same for every file whose name is written
\* in lower case.
C20_DestinationOfLowerCaseNames ==
  Routed =>
    \A k \in 1..Len(app.queueItems) :
      app.queueItems[k].file.name = lowerAll(app.queueItems[k].file.name)
        => app.queueItems[k].outputPath = Destination(app.queueItems[k])

\* --------------------------------------------------------------------- C22
\* The run has returned.
RunReturned == app.at = "returned"

\* The files of a course directory that the scanner keeps and the router
\* sends to passthrough, a skill or the archive extractor.
IsRoutable(e) ==
  /\ \A k \in 1..Len(e.dir) : ~startsWithCc(e.dir[k])
  /\ getRoutingDecision(getExtension(e.name)).method
       \in {"passthrough", "skill", "archive"}

RoutableCount(tree) == Cardinality({k \in 1..Len(tree) : IsRoutable(tree[k])})

RECURSIVE SumOver(_, _)
SumOver(counts, n) == IF n = 0 THEN 0 ELSE counts[n] + SumOver(counts, n - 1)

ScenarioE ==
  app.trees = << <<[dir |-> <<>>, name |-> <<"notes", "xyz">>]>>,
                 <<[dir |-> <<>>, name |-> <<"main", "cpp">>]>> >>

\* C22: when the run returns, its total is the number of files routed
\* passthrough, skill or archive, summed over the courses; its completed
\* and failed counts are the sums of the courses' counts; a course without
\* such a file adds nothing; and the two courses of Scenario E give
\* total = 1, with the one item completed or failed as its processor call
\* went.
C22_RunTotals ==
  RunReturned =>
    LET n == Len(app.courseResults)
    IN /\ n = Len(app.courses)
       /\ \A k \in 1..n :
            /\ app.courseResults[k].total = RoutableCount(app.trees[k])
            /\ RoutableCount(app.trees[k]) = 0 =>
                 app.courseResults[k].completed = 0 /\ app.courseResults[k].failed = 0
       /\ app.totalStats.total =
            SumOver([k \in 1..n |-> RoutableCount(app.trees[k])], n)
       /\ app.totalStats.completed =
            SumOver([k \in 1..n |-> app.courseResults[k].completed], n)
       /\ app.totalStats.failed =
            SumOver([k \in 1..n |-> app.courseResults[k].failed], n)
       /\ ScenarioE =>
            /\ app.totalStats.total = 1
            /\ app.totalStats.completed + app.totalStats.failed = 1

\* Scenario E was run for real and its one passthrough file was copied:
\* total = 1, completed = 1, failed = 0.
C22_Witness ==
  /\ RunReturned
  /\ ScenarioE
  /\ ~app.dryRun
  /\ app.totalStats.total = 1
  /\ app.totalStats.completed = 1
  /\ app.totalStats.failed = 0
  /\ Len(app.courseResults) = 2

DryRun == "dryRun" \in DOMAIN app /\ app.dryRun

\* C24: in a dry run nothing is created or written (no CODE directory, no
\* output directory, no error log) and no processor call is made.
C24_DryRunNoChanges ==
  DryRun =>
    /\ app.fs = {}
    /\ \A w \in Workers : pc[w] = "idle"
    /\ results = EmptyBag

\* What the code guarantees in a dry run: no pool is started, no processor
\* call is made and no output directory is created.
C24_DryRunNoProcessing ==
  DryRun =>
    /\ "output directories" \notin app.fs
    /\ workers = 0
    /\ \A w \in Workers : pc[w] = "idle"
    /\ results = EmptyBag

\* --------------------------------------------------------------------- C25
\* C25: the run exits with 0 only if courses were found and every course
\* ended with nothing pending, processing or failed and all its items
\* completed; it exits with 1 whenever an item of some course ended failed
\* or no course was found.
C25_ExitCode ==
  RunReturned =>
    /\ app.exit \in {0, 1}
    /\ app.success <=> app.exit = 0
    /\ app.exit = 0 =>
         /\ Len(app.courseResults) > 0
         /\ \A k \in 1..Len(app.courseResults) :
              /\ app.courseResults[k].pending = 0
              /\ app.courseResults[k].processing = 0
              /\ app.courseResults[k].failed = 0
              /\ app.courseResults[k].completed = app.courseResults[k].total
    /\ (\/ Len(app.courses) = 0
        \/ \E k \in 1..Len(app.courseResults) : app.courseResults[k].failed > 0)
         => app.exit = 1

\* A real run over two courses, each with a file that was processed to
\* completion, ended with exit code 0.
C25_Witness ==
  /\ RunReturned
  /\ ~app.dryRun
  /\ Len(app.courseResults) = 2
  /\ app.courseResults[1].completed = 1
  /\ app.courseResults[2].completed = 1
  /\ app.totalStats.total = 2
  /\ app.exit = 0

\* --------------------------------------------------------------------- C26
Calls == IF "calls" \in DOMAIN app THEN app.calls ELSE {}

\* The processor identifier, input path and working directory of a call
\* are those of the item it was made for.
CarriesItem(call, item) ==
  /\ call.processor = item.routedTo.skillName
  /\ call.filePath = [course |-> app.course, dir |-> item.file.relDir,
                      name |-> item.file.name]
  /\ call.workingDirectory = [course |-> app.course, dir |-> <<>>]

\* The output path of the call is the one resolved when the item was made.
CarriesResolvedPath(call, item) ==
  call.outputPath = [course |-> app.course, dir |-> item.outputPath.dir,
                     name |-> item.outputPath.name]

CauseNamed(w) ==
  LET it == queue.item[held[w]]
      code == queue'.item[held[w]].error.code
  IN CASE outcome[w] = "throw" -> code = "PROCESSOR_ERROR"
       [] outcome[w] = "fail" /\ it.error.recoverable
          /\ it.attempts < it.maxAttempts -> code = "MAX_ATTEMPTS"
       [] OTHER -> code \notin {"PROCESSOR_ERROR", "MAX_ATTEMPTS", "UNKNOWN", "NONE"}

\* C27: an item that becomes failed carries an error whose code names the
\* cause: the exhaustion code after its last retry, the exception code when
\* the processor call threw, and for a clean failure result a code of the
\* processor's failure, which is neither of the two nor "unknown".
C27_ErrorTaxonomy ==
  [][\A w \in Workers :
       (pc[w] = "settled" /\ pc'[w] # "settled" /\ held[w] \in queue'.failed)
         => CauseNamed(w)]_vars

\* What the code guarantees in the application: every failed item carries
\* the code UNKNOWN.
C27_AppFailuresUnknown ==
  app.at = "submitted" =>
    \A i \in queue.failed : queue.item[i].error.code = "UNKNOWN"

\* --------------------------------------------------------------------- C28
InSeq(s, x) == \E k \in 1..Len(s) : s[k] = x

\* This step is a markCompleted, markFailed, markSkipped or requeue call of
\* the caller that holds the item.
Released == \E c \in DOMAIN pc : pc[c] = "holding" /\ pc'[c] = "idle"

\* The suspended callers that this step handed an item.
Woken == {c \in DOMAIN queue.promise :
            /\ InSeq(queue.waiters, c) /\ ~InSeq(queue'.waiters, c)
            /\ queue'.promise[c] \in Ids}

\* C28: one call of markCompleted, markFailed, markSkipped or requeue on a
\* processing item hands an item to at most one suspended dequeue caller,
\* and the item it hands over is a pending one: it was pending before the
\* call, or it is the item the call itself put back into pending.
C28_AtMostOneWakeup ==
  [][Released =>
       /\ Cardinality(Woken) <= 1
       /\ \A c \in Woken :
            \/ InSeq(queue.items, queue'.promise[c])
            \/ \E d \in DOMAIN pc :
                 /\ pc[d] = "holding" /\ pc'[d] = "idle"
                 /\ queue'.promise[c] = held[d]
                 /\ queue'.item[held[d]].attempts
                      = queue.item[held[d]].attempts + 1]_vars

\* A retry with two callers suspended: one of them was handed the item, the
\* other is still suspended.
C28_Witness ==
  /\ queue.rel.id # null
  /\ queue.rel.served = 1
  /\ Len(queue.waiters) = 1
  /\ \E c \in DOMAIN queue.promise : queue.promise[c] = queue.rel.id

\* --------------------------------------------------------------------- C29
\* No acquisition of the step passed over a pending retried item of a
\* strictly smaller priority value.
RetriedNotPassedOver(q) ==
  \A k \in 1..Len(q.acq) :
    LET a == q.acq[k]
    IN \A n \in 1..Len(a.pending) :
         LET j == a.pending[n]
         IN (j # a.id /\ q.item[j].attempts > 0)
              => q.item[a.id].priority <= q.item[j].priority

\* Two items of equal priority that are pending before and after the step
\* are in the same order.
EqualsKeepOrder(q0, q1) ==
  \A x \in Ids, y \in Ids :
    (/\ x # y
     /\ InSeq(q0.items, x) /\ InSeq(q0.items, y)
     /\ InSeq(q1.items, x) /\ InSeq(q1.items, y)
     /\ q0.item[x].priority = q0.item[y].priority
     /\ Position(q0.items, x) < Position(q0.items, y))
      => Position(q1.items, x) < Position(q1.items, y)

\* C29: no step changes the priority of a submitted item; an item that
\* requeue put back is pending behind no item of a strictly greater priority
\* value, and no later acquisition takes an item of a strictly greater
\* priority value while it is pending, whenever those items were submitted;
\* pending items of equal priority keep their order in every step.
C29_RetryByPriority ==
  [][/\ \A i \in submitted : queue'.item[i].priority = queue.item[i].priority
     /\ \A i \in Ids :
          (InSeq(queue'.items, i) /\ queue'.item[i].attempts > 0)
            => \A k \in 1..(Position(queue'.items, i) - 1) :
                 queue'.item[queue'.items[k]].priority
                   <= queue'.item[i].priority
     /\ RetriedNotPassedOver(queue')
     /\ EqualsKeepOrder(queue, queue')]_vars

\* A retried item was acquired while an item submitted before it, of a
\* strictly greater priority value, was pending.
C29_Witness ==
  \E k \in 1..Len(queue.acq) :
    LET a == queue.acq[k]
    IN /\ queue.item[a.id].attempts > 0
       /\ \E n \in 1..Len(a.pending) :
            /\ a.pending[n] < a.id
            /\ queue.item[a.pending[n]].priority > queue.item[a.id].priority

\* --------------------------------------------------------------------- C30
\* The step is a processor's, not the worker loop's.
ProcessorStep == \E w \in Workers : pc[w] = "processor" /\ pc'[w] = "settled"

\* The step contains a queue operation on item i: an acquisition of i
\* (dequeue or notifyWaiters handed it out) or a markCompleted, markFailed,
\* markSkipped or requeue call, which takes i out of processing.
QueueOperationOn(i) ==
  \/ queue'.acquired[i] > queue.acquired[i]
  \/ i \in queue.processing /\ i \notin queue'.processing
  \/ i \in queue.processing /\ queue'.item[i].attempts > queue.item[i].attempts

\* C30: the worker loop never writes a field of a QueueItem: every step
\* outside the processor that changes a field of a submitted item contains
\* a queue operation on that item.
C30_OnlyQueueMutates ==
  [][\A i \in submitted :
       (queue'.item[i] # queue.item[i] /\ ~ProcessorStep)
         => QueueOperationOn(i)]_vars

\* What the code guarantees: a field of a submitted item changes only in a
\* step of the worker that was handed the item.
C30_OnlyHolderMutates ==
  [][\A i \in submitted :
       queue'.item[i] # queue.item[i]
         => \E w \in Workers :
              /\ pc'[w] # pc[w]
              /\ held[w] = i \/ queue.promise[w] = i]_vars

\* --------------------------------------------------------------------- C31
\* C31: whenever the progress callback is called for an attempt, the result
\* of the attempt has been recorded and the queue state update has been
\* made: the item is not in processing, unless the update handed it out
\* again (a retry that served a suspended loop).
C31_CallbackAfterUpdate ==
  app.at = "pool" =>
    \A v \in app.seen : v.recorded /\ (v.inProcessing => v.acquiredAgain)

\* The callback was called both for an attempt whose item had left
\* processing and for a retried one that was already handed to another loop.
C31_Witness ==
  /\ app.at = "pool"
  /\ \E v \in app.seen : ~v.inProcessing
  /\ \E v \in app.seen : v.inProcessing /\ v.acquiredAgain

\* --------------------------------------------------------------------- C32
\* What every run of a pool without a callback satisfies: no loop ends by an
\* exception, waitForCompletion does not reject, and when it returns on a
\* started pool every item is terminal.
AsWithoutCallback ==
  /\ \A w \in Workers : pc[w] # "crashed"
  /\ wfc.at # "threw"
  /\ StartedFirst => NoLoopLeftWork

\* C32: the progress callback has no control-flow effect: a pool with a
\* callback, whatever the callback does, runs as a pool without one.
C32_CallbackNoEffect == app.at = "pool" => AsWithoutCallback

\* What the code guarantees: a pool without a callback, or whose callback
\* has returned from every call so far, runs as claimed.
C32_ReturningCallbackNoEffect ==
  (app.at = "pool" /\ \A w \in Workers : pc[w] # "crashed")
    => (wfc.at # "threw" /\ (StartedFirst => NoLoopLeftWork))

\* --------------------------------------------------------------------- C33
\* C33: no two items of the pool are in processing at the same time with
\* equal resolved output paths.
C33_DistinctDestinations ==
  app.at = "submitted" =>
    \A i \in queue.processing, j \in queue.processing :
      i # j => queueItemOf(app, i).outputPath # queueItemOf(app, j).outputPath

\* What the code guarantees: two items in processing at the same time are
\* two different files of the course.
C33_DistinctSources ==
  app.at = "submitted" =>
    \A i \in queue.processing, j \in queue.processing :
      i # j => queueItemOf(app, i).file # queueItemOf(app, j).file

\* --------------------------------------------------------------------- C34
\* C34: on an open queue, whenever a dequeue caller is suspended and an item
\* is pending, the processing set is full: no caller stays suspended while
\* an item is pending and a slot is free.
C34_NoLostWakeup ==
  (~queue.closed /\ Len(queue.waiters) > 0 /\ Len(queue.items) > 0)
    => Cardinality(queue.processing) = maxConcurrent

\* A caller is suspended while an item is pending, the limit being reached,
\* and the pending item has been retried.
C34_Witness ==
  /\ ~queue.closed
  /\ Len(queue.waiters) > 0
  /\ Len(queue.items) > 0
  /\ Cardinality(queue.processing) = maxConcurrent
  /\ \E k \in 1..Len(queue.items) : queue.item[queue.items[k]].attempts > 0

\* --------------------------------------------------------------------- C35
\* The number of requeue calls made on item i so far: every acquisition but
\* one still in progress ended in markCompleted, markFailed or requeue, and
\* only the last one can have ended otherwise than in requeue.
Retries(q, i) ==
  IF \/ InSeq(q.items, i)
     \/ i \in q.failed /\ q.item[i].error.code = "MAX_ATTEMPTS"
  THEN q.acquired[i]
  ELSE IF q.acquired[i] = 0 THEN 0 ELSE q.acquired[i] - 1

Max(a, b) == IF a >= b THEN a ELSE b

\* C35: in every state of a pool run, each submitted item has
\* 0 <= attempts <= maxAttempts, attempts is the number of requeue calls made
\* on it, and it has been acquired at most max(1, maxAttempts) times.
C35_AttemptsBounded ==
  \A i \in submitted :
    /\ 0 <= queue.item[i].attempts
    /\ queue.item[i].attempts <= queue.item[i].maxAttempts
    /\ queue.item[i].attempts = Retries(queue, i)
    /\ queue.acquired[i] <= Max(1, queue.item[i].maxAttempts)

\* One item used up its two attempts and is failed for it; another one,
\* with no attempt to spare, was acquired once and failed.
C35_Witness ==
  /\ \E i \in queue.failed :
       /\ queue.item[i].maxAttempts = MaxMaxAttempts
       /\ queue.item[i].attempts = MaxMaxAttempts
       /\ queue.acquired[i] = MaxMaxAttempts
  /\ \E j \in queue.failed :
       /\ queue.item[j].maxAttempts = 0
       /\ queue.acquired[j] = 1

\* --------------------------------------------------------------------- C36
RECURSIVE SumAcquired(_, _)
SumAcquired(q, n) == IF n = 0 THEN 0 ELSE q.acquired[n] + SumAcquired(q, n - 1)

\* The attempts on item i that are over: its acquisitions, less the one in
\* progress while the item is in processing.
Finished(q, i) == q.acquired[i] - (IF i \in q.processing THEN 1 ELSE 0)

\* The results recorded for item i.
ResultsOf(i) ==
  CopiesIn([queueItem |-> i, success |-> TRUE], results)
  + CopiesIn([queueItem |-> i, success |-> FALSE], results)

\* C36: the pool holds one result per finished attempt, not per item: the
\* number of results is the number of finished attempts, item by item, and
\* an installed progress callback has been called once per finished attempt.
C36_ResultPerAttempt ==
  app.at = "pool" =>
    /\ BagCardinality(results)
         = SumAcquired(queue, MaxItems) - Cardinality(queue.processing)
    /\ \A i \in Ids : ResultsOf(i) = Finished(queue, i)
    /\ app.installed => app.invoked = BagCardinality(results)

\* An item was retried once and then completed: it has two results, and the
\* callback has been called for each finished attempt.
C36_Witness ==
  /\ app.at = "pool" /\ app.installed
  /\ \E i \in queue.completed :
       /\ queue.item[i].attempts = 1
       /\ ResultsOf(i) = 2
  /\ app.invoked = BagCardinality(results)
  /\ app.invoked >= 3

\* --------------------------------------------------------------------- C37
\* The queue without its per-step history.
Content(q) ==
  [items |-> q.items, processing |-> q.processing, completed |-> q.completed,
   failed |-> q.failed, skipped |-> q.skipped, closed |-> q.closed,
   waiters |-> q.waiters, item |-> q.item, promise |-> q.promise,
   stats |-> getStats(q)]

\* C37: on a closed queue every enqueue and enqueueMany call throws, and a
\* call that throws leaves the queue as it was: on a closed queue no step
\* accepts an item or changes the total, an item enters pending only by
\* being put back from processing, and the step of a refused call changes
\* neither the pending items nor the stats nor the suspended callers.
C37_ClosedQueueRefuses ==
  [][/\ queue.closed =>
          /\ submitted' = submitted
          /\ getStats(queue').total = getStats(queue).total
          /\ \A i \in Ids : (InSeq(queue'.items, i) /\ ~InSeq(queue.items, i))
                               => i \in queue.processing
     /\ queue'.refused =>
          /\ queue.closed
          /\ Content(queue') = Content(queue)
          /\ created' = created]_vars

\* An enqueue was refused by a queue that was closed with an item pending
\* and an item in processing.
C37_Witness ==
  /\ queue.refused
  /\ Len(queue.items) > 0
  /\ queue.processing # {}

\* --------------------------------------------------------------------- C38
\* C38: in the application no item is retried: whatever the failure, the
\* attempts counter of every queued item stays 0, the item is acquired at
\* most once, and exactly once when it is completed or failed.
C38_NoRetryInApp ==
  app.at = "submitted" =>
    \A i \in submitted :
      /\ queue.item[i].attempts = 0
      /\ queue.item[i].maxAttempts = DefaultMaxAttempts
      /\ queue.acquired[i] <= 1
      /\ Terminal(queue, i) => queue.acquired[i] = 1
      /\ i \in queue.failed => ~queue.item[i].error.recoverable

\* Both items of a course have failed, each after its one acquisition, and
\* both loops have exited.
C38_Witness ==
  /\ app.at = "submitted"
  /\ Cardinality(queue.failed) = MaxFiles
  /\ \A i \in queue.failed : queue.acquired[i] = 1 /\ queue.item[i].attempts = 0
  /\ \A w \in Workers : pc[w] = "done"

\* --------------------------------------------------------------------- C39
\* The category the Scanner gives a file of this extension.
CategoryOf(extension) == categorizeFile(lowerAll(extension))

\* C39: the router answers unsupported exactly for the extensions the
\* category table does not know: an extension of a known category other
\* than video and audio is routed to passthrough, skill or archive.
C39_KnownCategoryIsRouted ==
  app.at = "router" =>
    \A k \in 1..Len(app.decisions) :
      LET d == app.decisions[k]
      IN /\ (d.decision.method = "unsupported")
              <=> (CategoryOf(d.extension) = "unknown")
         /\ CategoryOf(d.extension) \notin {"unknown", "video", "audio"}
              => d.decision.method \in {"passthrough", "skill", "archive"}

\* What the code guarantees: an extension of no category is unsupported, and
\* one of the categories video and audio is skipped.
C39_UnknownIsUnsupported ==
  app.at = "router" =>
    \A k \in 1..Len(app.decisions) :
      LET d == app.decisions[k]
      IN /\ CategoryOf(d.extension) = "unknown" => d.decision.method = "unsupported"
         /\ CategoryOf(d.extension) \in {"video", "audio"} => d.decision.method = "skip"

\* --------------------------------------------------------------------- C40
\* FileProcessor.processArchive extracts into getArchiveOutputDir(file,
\* coursePath), a directory "__extracted_<base>" in the course root; the
\* archive is taken to hold one source file.
extractedEntry(item) == [dir |-> <<"__extracted_">>, name |-> <<"main", "cpp">>]

\* FileProcessor.process for a passthrough or a skill item writes the file
\* at the item's output path, in the validated-files directory; the copy is
\* listed under the name of its source.
validatedEntry(item) == [dir |-> item.outputPath.dir, name |-> item.file.name]

\* ErrorLogger: the log of a run is error_<timestamp>.log in the CODE
\* directory of the course.
errorLogEntry == [dir |-> <<"CODE">>, name |-> <<"error", "log">>]

\* The files the completed items of a run have written, in the order of the
\* queue items from the k-th on.
RECURSIVE writtenByItems(_, _, _)
writtenByItems(a, q, k) ==
  IF k > Len(a.queueItems) THEN <<>>
  ELSE LET item == a.queueItems[k]
       IN (IF item.id \notin q.completed THEN <<>>
           ELSE IF item.routedTo.method = "archive" THEN <<extractedEntry(item)>>
           ELSE <<validatedEntry(item)>>)
          \o writtenByItems(a, q, k + 1)

\* The course directory as App.processCourse leaves it: the files it held,
\* the files the completed items wrote, and the error log if one was
\* written.  The directories a run makes hold no file of their own.
treeAfterRun(a, q) ==
  a.tree \o writtenByItems(a, q, 1)
         \o (IF "error log" \in a.fs THEN <<errorLogEntry>> ELSE <<>>)

\* The set of the files a scan returns.
Scanned(files) == {files[k] : k \in 1..Len(files)}

\* C40: running the pipeline again on the same course is stable: nothing an
\* earlier run wrote (validated copies, extraction directories, error logs)
\* is in the Scanner's output of a later run, so the second run scans the
\* same set of files as the first.
C40_SecondScanEqual ==
  app.at = "finished" =>
    Scanned(scanDirectory(treeAfterRun(app, queue))) = Scanned(app.files)

\* What the code guarantees: the second scan returns every file of the
\* first, and none from a directory whose name starts with "__cc".
C40_SecondScanKeepsFirst ==
  app.at = "finished" =>
    LET again == scanDirectory(treeAfterRun(app, queue))
    IN /\ Scanned(app.files) \subseteq Scanned(again)
       /\ \A k \in 1..Len(again) :
            \A l \in 1..Len(again[k].relDir) : ~startsWithCc(again[k].relDir[l])

\* The only thing a dry run can leave behind is the error log.
C40_DryRunWritesNoOutput ==
  app.at = "finished" /\ app.dryRun =>
    writtenByItems(app, queue, 1) = <<>>

====
